---- MODULE Spec2Model ----
(***************************************************************************)
(* Reservation engine of the clinic agent (src/database.py).               *)
(*                                                                         *)
(* Every call of create_appointment / cancel_appointment opens its own     *)
(* PostgreSQL connection with autocommit off, so it is one transaction at  *)
(* the server's default isolation level, READ COMMITTED: a SELECT reads    *)
(* the rows committed at the time the statement runs, an UPDATE takes the  *)
(* row's lock and waits while another open transaction holds it, and the   *)
(* writes of a transaction reach the committed tables together at COMMIT   *)
(* or not at all at ROLLBACK.  Sessions are the concurrent callers.        *)
(***************************************************************************)
EXTENDS Integers, FiniteSets, Sequences, TLC

\* ------------------------------------------------------------- bounds
NumSlots == 2      \* rows of available_slots
NumCpfs == 2       \* distinct identity keys the callers use
MaxCalls == 3      \* calls issued in one behaviour
MaxFaults == 1     \* storage failures injected in one behaviour

\* Two concurrent sessions: the races of this code need two callers and no more.
Procs == {1, 2}
Slots == 1..NumSlots
NoSlot == NumSlots + 1          \* a slot id with no row in available_slots
Cpfs == 1..NumCpfs
\* Serial ids: a row's id is the number of the call that inserted it, 1..MaxCalls.

VARIABLES
    slotAvail,   \* available_slots.is_available of every slot row (committed)
    appts,       \* committed rows of appointments
    patients,    \* committed rows of patients
    pc,          \* the statement each session is about to run
    req,         \* the arguments of each session's current call
    loc,         \* the locals of the call: patient_id, slot_id
    tx,          \* the uncommitted writes of each session's open transaction
    result,      \* the 'status' each session's last call returned
    calls,       \* calls issued so far
    faults,      \* storage failures injected so far
    overlap,     \* history: the sessions whose call ran while this session's call ran
    lastDone,    \* history: the last call that returned: its operation, number, slot,
                 \* identity key and status, whether it cancelled a CONFIRMED
                 \* appointment, whether it had inserted a patient row
    solo         \* history: the call is a book that began with no other call running,
                 \* right after a successful cancel of a CONFIRMED appointment of its
                 \* slot, and no call has begun since

vars == <<slotAvail, appts, patients, pc, req, loc, tx, result, calls, faults,
          overlap, lastDone, solo>>

db == <<slotAvail, appts, patients>>

\* ------------------------------------------------------------- rows
NoTx == [pat |-> {}, app |-> {}, upd |-> {}, slot |-> {}]
NoReq == [op |-> "none", call |-> 0, slot |-> 0, cpf |-> 0, doctor |-> 0, clinic |-> <<>>,
          insurance |-> <<>>, appt |-> 0]
NoLoc == [patient_id |-> 0, slot_id |-> 0]
NoCall == [op |-> "none", call |-> 0, slot |-> 0, cpf |-> 0, result |-> "none",
           confirmed |-> FALSE, inserted |-> FALSE]

Active(p) == pc[p] \notin {"idle", "done"}

\* The rows of appointments with the given id (ids are unique: at most one).
ApptRows(id) == {a \in appts : a.id = id}

\* The CONFIRMED appointments that reference slot s.
ConfirmedOn(rows, s) == {a \in rows : a.slot = s /\ a.status = "CONFIRMED"}

\* A row lock: an open transaction that has updated the row holds it to its end.
SlotLockedByOther(p, s) == \E q \in Procs \ {p} : \E w \in tx[q].slot : w[1] = s
ApptLockedByOther(p, id) == \E q \in Procs \ {p} : id \in tx[q].upd

\* ------------------------------------------------------------- transaction end
\* conn.commit(): every write of the transaction reaches the tables at once.
CommitSlots(p) == [s \in Slots |-> IF \E w \in tx[p].slot : w[1] = s
                                   THEN (CHOOSE w \in tx[p].slot : w[1] = s)[2]
                                   ELSE slotAvail[s]]
\* Mutant of CommitAppts: the cancel deletes the appointment row (DELETE FROM
\* appointments) where the code updates its status.
CommitApptsDeletes(p) == {a \in appts : a.id \notin tx[p].upd} \cup tx[p].app

CommitAppts(p) == {IF a.id \in tx[p].upd
                   THEN [a EXCEPT !.status = "CANCELLED", !.stamp = req[p].call]
                   ELSE a : a \in appts} \cup tx[p].app
\* Mutant of CommitPatients: the call overwrites the profile of the row it found
\* (an upsert) where the code only reads the row's id.
CommitPatientsOverwrites(p) ==
    {IF r.cpf = req[p].cpf THEN [r EXCEPT !.profile = req[p].call] ELSE r : r \in patients}
        \cup tx[p].pat

CommitPatients(p) == patients \cup tx[p].pat

Commit(p) ==
    /\ slotAvail' = CommitSlots(p)
    /\ appts' = CommitAppts(p)
    /\ patients' = CommitPatients(p)
    /\ tx' = [tx EXCEPT ![p] = NoTx]

\* Mutant of Rollback: the connection is neither rolled back nor closed, so the
\* transaction stays open on the server with the row locks it holds.
RollbackLeavesOpen(p) ==
    /\ UNCHANGED db
    /\ UNCHANGED tx

\* conn.rollback(), or conn.close() with the transaction open: nothing is kept.
Rollback(p) ==
    /\ UNCHANGED db
    /\ tx' = [tx EXCEPT ![p] = NoTx]

\* The slot a call is about: the one it names, or the one its appointment references.
CallSlot(p) == IF req[p].op = "book" THEN req[p].slot ELSE loc[p].slot_id

\* The call returns its status.  Of the call's arguments and locals the session
\* keeps what the properties below read: the operation, the call and its slot.
Return(p, status, wasConfirmed) ==
    /\ pc' = [pc EXCEPT ![p] = "done"]
    /\ result' = [result EXCEPT ![p] = status]
    /\ lastDone' = [op |-> req[p].op, call |-> req[p].call, slot |-> CallSlot(p),
                    cpf |-> req[p].cpf, result |-> status, confirmed |-> wasConfirmed,
                    inserted |-> tx[p].pat # {}]
    /\ req' = [req EXCEPT ![p] = [op |-> req[p].op, call |-> req[p].call,
                                  slot |-> CallSlot(p), cpf |-> 0, doctor |-> 0,
                                  clinic |-> <<>>, insurance |-> <<>>, appt |-> 0]]
    /\ loc' = [loc EXCEPT ![p] = NoLoc]
    /\ UNCHANGED <<calls, overlap, solo>>

\* A call begins on session p: a new connection, autocommit off.
Begin(p, r) ==
    /\ ~Active(p)
    /\ \A q \in Procs : q < p => Active(q)
    /\ calls < MaxCalls
    /\ calls' = calls + 1
    /\ req' = [req EXCEPT ![p] = r]
    /\ loc' = [loc EXCEPT ![p] = NoLoc]
    /\ result' = [result EXCEPT ![p] = "none"]
    /\ overlap' = [q \in Procs |->
                     IF q = p THEN {x \in Procs \ {p} : Active(x)}
                     ELSE IF Active(q) THEN overlap[q] \cup {p} ELSE overlap[q]]
    /\ solo' = [q \in Procs |->
                  IF q = p
                  THEN /\ \A x \in Procs \ {p} : ~Active(x)
                       /\ lastDone.op = "cancel"
                       /\ lastDone.result = "success"
                       /\ lastDone.confirmed
                       /\ r.op = "book"
                       /\ r.slot = lastDone.slot
                  ELSE FALSE]
    /\ UNCHANGED <<db, tx, faults, lastDone>>

\* ------------------------------------------------------------- texts (src/agent.py)
\* A text is a sequence of one-character strings.
DigitChars == <<"0", "1", "2", "3", "4", "5", "6", "7", "8", "9">>

\* The decimal digits of every script that a string of this module can hold, by
\* value: DecimalChars[v + 1] are the characters of value v.  They are what
\* int() and the \\d of strptime accept.
DecimalChars == <<
    {"0", "۰", "߀", "০", "૦", "௦", "೦", "෦", "໐", "႐", "០", "᧐", "᪀", "᪐", "᮰", "꣐", "꧐",
     "꧰", "꯰"},
    {"1", "۱", "߁", "১", "૧", "௧", "೧", "෧", "໑", "႑", "១", "᧑", "᪁", "᪑", "᮱", "꣑", "꧑",
     "꧱", "꯱"},
    {"2", "۲", "߂", "২", "૨", "௨", "೨", "෨", "໒", "႒", "២", "᧒", "᪂", "᪒", "᮲", "꣒", "꧒",
     "꧲", "꯲"},
    {"3", "۳", "߃", "৩", "૩", "௩", "೩", "෩", "໓", "႓", "៣", "᧓", "᪃", "᪓", "᮳", "꣓", "꧓",
     "꧳", "꯳"},
    {"4", "۴", "߄", "৪", "૪", "௪", "೪", "෪", "໔", "႔", "៤", "᧔", "᪄", "᪔", "᮴", "꣔", "꧔",
     "꧴", "꯴"},
    {"5", "۵", "߅", "৫", "૫", "௫", "೫", "෫", "໕", "႕", "៥", "᧕", "᪅", "᪕", "᮵", "꣕", "꧕",
     "꧵", "꯵"},
    {"6", "۶", "߆", "৬", "૬", "௬", "೬", "෬", "໖", "႖", "៦", "᧖", "᪆", "᪖", "᮶", "꣖", "꧖",
     "꧶", "꯶"},
    {"7", "۷", "߇", "৭", "૭", "௭", "೭", "෭", "໗", "႗", "៧", "᧗", "᪇", "᪗", "᮷", "꣗", "꧗",
     "꧷", "꯷"},
    {"8", "۸", "߈", "৮", "૮", "௮", "೮", "෮", "໘", "႘", "៨", "᧘", "᪈", "᪘", "᮸", "꣘", "꧘",
     "꧸", "꯸"},
    {"9", "۹", "߉", "৯", "૯", "௯", "೯", "෯", "໙", "႙", "៩", "᧙", "᪉", "᪙", "᮹", "꣙", "꧙",
     "꧹", "꯹"}>>

\* The characters str.isdigit() accepts besides the decimal digits: superscript
\* and subscript digits, digits with a full stop, circled digits.
OtherDigitChars ==
    {"²", "³", "¹", "᧚", "₀", "₁", "₂", "₃", "₄", "₅", "₆", "₇", "₈", "₉", "⒈", "⒉", "⒊",
     "⒋", "⒌", "⒍", "⒎", "⒏", "⒐", "⓪", "⓵", "⓶", "⓷", "⓸", "⓹", "⓺", "⓻", "⓼", "⓽", "⓿",
     "➀", "➁", "➂", "➃", "➄", "➅", "➆", "➇", "➈", "➊", "➋", "➌", "➍", "➎", "➏", "➐", "➑",
     "➒"}

IsDecimalChar(c) == \E v \in 1..10 : c \in DecimalChars[v]
IsDigitChar(c) == IsDecimalChar(c) \/ c \in OtherDigitChars
DigitVal(c) == (CHOOSE v \in 1..10 : c \in DecimalChars[v]) - 1

\* The whitespace characters that a string of this module can hold: tab,
\* newline, U+000B, form feed, carriage return, U+001C..U+001F, the blank,
\* U+0085, U+00A0 and U+1680.  str.strip() removes every one of them; int()
\* skips them all but U+001C..U+001F; the TRIM of SQL removes the blank only.
SpaceChars ==
    {"\t", "\n", "", "\f", "\r", "",
     "", "", "", " ", "", " ", " "}
IntSpaceChars ==
    {"\t", "\n", "", "\f", "\r", " ",
     "", " ", " "}

\* s without its leading and trailing characters of chars.
StripOf(s, chars) ==
    LET ink == {i \in 1..Len(s) : s[i] \notin chars} IN
    IF ink = {} THEN <<>>
    ELSE SubSeq(s, CHOOSE i \in ink : \A j \in ink : i <= j,
                   CHOOSE i \in ink : \A j \in ink : i >= j)

\* str.replace(c, ""), str.strip(), TRIM(s), str.isdigit().
Replace(s, c) == SelectSeq(s, LAMBDA x : x # c)
Strip(s) == StripOf(s, SpaceChars)
Trim(s) == StripOf(s, {" "})
IsDigits(s) == Len(s) > 0 /\ \A i \in 1..Len(s) : IsDigitChar(s[i])
IsDecimals(s) == Len(s) > 0 /\ \A i \in 1..Len(s) : IsDecimalChar(s[i])

RECURSIVE ToNat(_)
ToNat(s) == IF s = <<>> THEN 0 ELSE 10 * ToNat(SubSeq(s, 1, Len(s) - 1)) + DigitVal(s[Len(s)])

\* str.split(sep).
RECURSIVE Split(_, _)
Split(s, sep) ==
    LET at == {i \in 1..Len(s) : s[i] = sep} IN
    IF at = {} THEN <<s>>
    ELSE LET i == CHOOSE i \in at : \A j \in at : i <= j
         IN <<SubSeq(s, 1, i - 1)>> \o Split(SubSeq(s, i + 1, Len(s)), sep)

\* str.upper(), a character at a time: a..z by the two alphabets, every other
\* character that a string of this module can hold and that str.upper()
\* changes by UpperTable, whose entries are the character and what it becomes,
\* one character or more (U+00DF becomes SS); any other character is itself.
\* A character that a string of this module cannot hold is written by its code
\* point, as "U+0178".
UpperTable == {
    <<"µ", <<"Μ">>>>, <<"ß", <<"S", "S">>>>, <<"à", <<"À">>>>, <<"á", <<"Á">>>>,
    <<"â", <<"Â">>>>, <<"ã", <<"Ã">>>>, <<"ä", <<"Ä">>>>, <<"å", <<"Å">>>>, <<"æ", <<"Æ">>>>,
    <<"ç", <<"Ç">>>>, <<"è", <<"È">>>>, <<"é", <<"É">>>>, <<"ê", <<"Ê">>>>, <<"ë", <<"Ë">>>>,
    <<"ì", <<"Ì">>>>, <<"í", <<"Í">>>>, <<"î", <<"Î">>>>, <<"ï", <<"Ï">>>>, <<"ð", <<"Ð">>>>,
    <<"ñ", <<"Ñ">>>>, <<"ò", <<"Ò">>>>, <<"ó", <<"Ó">>>>, <<"ô", <<"Ô">>>>, <<"õ", <<"Õ">>>>,
    <<"ö", <<"Ö">>>>, <<"ø", <<"Ø">>>>, <<"ù", <<"Ù">>>>, <<"ú", <<"Ú">>>>, <<"û", <<"Û">>>>,
    <<"ü", <<"Ü">>>>, <<"ý", <<"Ý">>>>, <<"þ", <<"Þ">>>>, <<"ÿ", <<"U+0178">>>>,
    <<"ƀ", <<"U+0243">>>>, <<"ƃ", <<"Ƃ">>>>, <<"ƅ", <<"Ƅ">>>>, <<"ƈ", <<"Ƈ">>>>,
    <<"ƌ", <<"Ƌ">>>>, <<"ƒ", <<"Ƒ">>>>, <<"ƕ", <<"Ƕ">>>>, <<"ƙ", <<"Ƙ">>>>,
    <<"ƚ", <<"U+023D">>>>, <<"ƞ", <<"U+0220">>>>, <<"ơ", <<"Ơ">>>>, <<"ƣ", <<"Ƣ">>>>,
    <<"ƥ", <<"Ƥ">>>>, <<"ƨ", <<"Ƨ">>>>, <<"ƭ", <<"Ƭ">>>>, <<"ư", <<"Ư">>>>, <<"ƴ", <<"Ƴ">>>>,
    <<"ƶ", <<"Ƶ">>>>, <<"ƹ", <<"Ƹ">>>>, <<"ƽ", <<"Ƽ">>>>, <<"ƿ", <<"Ƿ">>>>, <<"ǅ", <<"Ǆ">>>>,
    <<"ǆ", <<"Ǆ">>>>, <<"ǈ", <<"Ǉ">>>>, <<"ǉ", <<"Ǉ">>>>, <<"ǋ", <<"Ǌ">>>>, <<"ǌ", <<"Ǌ">>>>,
    <<"ǎ", <<"Ǎ">>>>, <<"ǐ", <<"Ǐ">>>>, <<"ǒ", <<"Ǒ">>>>, <<"ǔ", <<"Ǔ">>>>, <<"ǖ", <<"Ǖ">>>>,
    <<"ǘ", <<"Ǘ">>>>, <<"ǚ", <<"Ǚ">>>>, <<"ǜ", <<"Ǜ">>>>, <<"ǝ", <<"Ǝ">>>>, <<"ǟ", <<"Ǟ">>>>,
    <<"ǡ", <<"Ǡ">>>>, <<"ǣ", <<"Ǣ">>>>, <<"ǥ", <<"Ǥ">>>>, <<"ǧ", <<"Ǧ">>>>, <<"ǩ", <<"Ǩ">>>>,
    <<"ǫ", <<"Ǫ">>>>, <<"ǭ", <<"Ǭ">>>>, <<"ǯ", <<"Ǯ">>>>, <<"ǰ", <<"J", "U+030C">>>>,
    <<"ǲ", <<"Ǳ">>>>, <<"ǳ", <<"Ǳ">>>>, <<"ǵ", <<"Ǵ">>>>, <<"ǹ", <<"Ǹ">>>>, <<"ǻ", <<"Ǻ">>>>,
    <<"ǽ", <<"Ǽ">>>>, <<"ǿ", <<"Ǿ">>>>, <<"ʀ", <<"Ʀ">>>>, <<"ʂ", <<"Ʂ">>>>, <<"ʃ", <<"Ʃ">>>>,
    <<"ʇ", <<"Ʇ">>>>, <<"ʈ", <<"Ʈ">>>>, <<"ʉ", <<"U+0244">>>>, <<"ʊ", <<"Ʊ">>>>,
    <<"ʋ", <<"Ʋ">>>>, <<"ʌ", <<"U+0245">>>>, <<"ʒ", <<"Ʒ">>>>, <<"ʝ", <<"Ʝ">>>>,
    <<"ʞ", <<"Ʞ">>>>, <<"ΐ", <<"Ι", "U+0308", "U+0301">>>>, <<"ά", <<"Ά">>>>, <<"έ", <<"Έ">>>>,
    <<"ή", <<"Ή">>>>, <<"ί", <<"Ί">>>>, <<"ΰ", <<"Υ", "U+0308", "U+0301">>>>, <<"α", <<"Α">>>>,
    <<"β", <<"Β">>>>, <<"γ", <<"Γ">>>>, <<"δ", <<"Δ">>>>, <<"ε", <<"Ε">>>>, <<"ζ", <<"Ζ">>>>,
    <<"η", <<"Η">>>>, <<"θ", <<"Θ">>>>, <<"ι", <<"Ι">>>>, <<"κ", <<"Κ">>>>, <<"λ", <<"Λ">>>>,
    <<"μ", <<"Μ">>>>, <<"ν", <<"Ν">>>>, <<"ξ", <<"Ξ">>>>, <<"ο", <<"Ο">>>>, <<"π", <<"Π">>>>,
    <<"ρ", <<"Ρ">>>>, <<"ς", <<"Σ">>>>, <<"σ", <<"Σ">>>>, <<"τ", <<"Τ">>>>, <<"υ", <<"Υ">>>>,
    <<"φ", <<"Φ">>>>, <<"χ", <<"Χ">>>>, <<"ψ", <<"Ψ">>>>, <<"ω", <<"Ω">>>>, <<"ϊ", <<"Ϊ">>>>,
    <<"ϋ", <<"Ϋ">>>>, <<"ό", <<"Ό">>>>, <<"ύ", <<"Ύ">>>>, <<"ώ", <<"Ώ">>>>, <<"ϐ", <<"Β">>>>,
    <<"ϑ", <<"Θ">>>>, <<"ϕ", <<"Φ">>>>, <<"ϖ", <<"Π">>>>, <<"ϗ", <<"Ϗ">>>>, <<"ϙ", <<"Ϙ">>>>,
    <<"ϛ", <<"Ϛ">>>>, <<"ϝ", <<"Ϝ">>>>, <<"ϟ", <<"Ϟ">>>>, <<"ϡ", <<"Ϡ">>>>, <<"ϣ", <<"Ϣ">>>>,
    <<"ϥ", <<"Ϥ">>>>, <<"ϧ", <<"Ϧ">>>>, <<"ϩ", <<"Ϩ">>>>, <<"ϫ", <<"Ϫ">>>>, <<"ϭ", <<"Ϭ">>>>,
    <<"ϯ", <<"Ϯ">>>>, <<"ϰ", <<"Κ">>>>, <<"ϱ", <<"Ρ">>>>, <<"ϲ", <<"Ϲ">>>>,
    <<"ϳ", <<"U+037F">>>>, <<"ϵ", <<"Ε">>>>, <<"ϸ", <<"Ϸ">>>>, <<"ϻ", <<"Ϻ">>>>,
    <<"ҁ", <<"Ҁ">>>>, <<"ҋ", <<"Ҋ">>>>, <<"ҍ", <<"Ҍ">>>>, <<"ҏ", <<"Ҏ">>>>, <<"ґ", <<"Ґ">>>>,
    <<"ғ", <<"Ғ">>>>, <<"ҕ", <<"Ҕ">>>>, <<"җ", <<"Җ">>>>, <<"ҙ", <<"Ҙ">>>>, <<"қ", <<"Қ">>>>,
    <<"ҝ", <<"Ҝ">>>>, <<"ҟ", <<"Ҟ">>>>, <<"ҡ", <<"Ҡ">>>>, <<"ң", <<"Ң">>>>, <<"ҥ", <<"Ҥ">>>>,
    <<"ҧ", <<"Ҧ">>>>, <<"ҩ", <<"Ҩ">>>>, <<"ҫ", <<"Ҫ">>>>, <<"ҭ", <<"Ҭ">>>>, <<"ү", <<"Ү">>>>,
    <<"ұ", <<"Ұ">>>>, <<"ҳ", <<"Ҳ">>>>, <<"ҵ", <<"Ҵ">>>>, <<"ҷ", <<"Ҷ">>>>, <<"ҹ", <<"Ҹ">>>>,
    <<"һ", <<"Һ">>>>, <<"ҽ", <<"Ҽ">>>>, <<"ҿ", <<"Ҿ">>>>, <<"ӂ", <<"Ӂ">>>>, <<"ӄ", <<"Ӄ">>>>,
    <<"ӆ", <<"Ӆ">>>>, <<"ӈ", <<"Ӈ">>>>, <<"ӊ", <<"Ӊ">>>>, <<"ӌ", <<"Ӌ">>>>, <<"ӎ", <<"Ӎ">>>>,
    <<"ӏ", <<"Ӏ">>>>, <<"ӑ", <<"Ӑ">>>>, <<"ӓ", <<"Ӓ">>>>, <<"ӕ", <<"Ӕ">>>>, <<"ӗ", <<"Ӗ">>>>,
    <<"ә", <<"Ә">>>>, <<"ӛ", <<"Ӛ">>>>, <<"ӝ", <<"Ӝ">>>>, <<"ӟ", <<"Ӟ">>>>, <<"ӡ", <<"Ӡ">>>>,
    <<"ӣ", <<"Ӣ">>>>, <<"ӥ", <<"Ӥ">>>>, <<"ӧ", <<"Ӧ">>>>, <<"ө", <<"Ө">>>>, <<"ӫ", <<"Ӫ">>>>,
    <<"ӭ", <<"Ӭ">>>>, <<"ӯ", <<"Ӯ">>>>, <<"ӱ", <<"Ӱ">>>>, <<"ӳ", <<"Ӳ">>>>, <<"ӵ", <<"Ӵ">>>>,
    <<"ӷ", <<"Ӷ">>>>, <<"ӹ", <<"Ӹ">>>>, <<"ӻ", <<"Ӻ">>>>, <<"ӽ", <<"Ӽ">>>>, <<"ӿ", <<"Ӿ">>>>,
    <<"ր", <<"U+0550">>>>, <<"ց", <<"U+0551">>>>, <<"ւ", <<"U+0552">>>>, <<"փ", <<"U+0553">>>>,
    <<"ք", <<"U+0554">>>>, <<"օ", <<"U+0555">>>>, <<"ֆ", <<"U+0556">>>>,
    <<"և", <<"U+0535", "U+0552">>>>, <<"ა", <<"Ა">>>>, <<"ბ", <<"Ბ">>>>, <<"გ", <<"Გ">>>>,
    <<"დ", <<"Დ">>>>, <<"ე", <<"Ე">>>>, <<"ვ", <<"Ვ">>>>, <<"ზ", <<"Ზ">>>>, <<"თ", <<"Თ">>>>,
    <<"ი", <<"Ი">>>>, <<"კ", <<"Კ">>>>, <<"ლ", <<"Ლ">>>>, <<"მ", <<"Მ">>>>, <<"ნ", <<"Ნ">>>>,
    <<"ო", <<"Ო">>>>, <<"პ", <<"Პ">>>>, <<"ჟ", <<"Ჟ">>>>, <<"რ", <<"Რ">>>>, <<"ს", <<"Ს">>>>,
    <<"ტ", <<"Ტ">>>>, <<"უ", <<"Უ">>>>, <<"ფ", <<"Ფ">>>>, <<"ქ", <<"Ქ">>>>, <<"ღ", <<"Ღ">>>>,
    <<"ყ", <<"Ყ">>>>, <<"შ", <<"Შ">>>>, <<"ჩ", <<"Ჩ">>>>, <<"ც", <<"Ც">>>>, <<"ძ", <<"Ძ">>>>,
    <<"წ", <<"Წ">>>>, <<"ჭ", <<"Ჭ">>>>, <<"ხ", <<"Ხ">>>>, <<"ჯ", <<"Ჯ">>>>, <<"ჰ", <<"Ჰ">>>>,
    <<"ჱ", <<"Ჱ">>>>, <<"ჲ", <<"Ჲ">>>>, <<"ჳ", <<"Ჳ">>>>, <<"ჴ", <<"Ჴ">>>>, <<"ჵ", <<"Ჵ">>>>,
    <<"ჶ", <<"Ჶ">>>>, <<"ჷ", <<"Ჷ">>>>, <<"ჸ", <<"Ჸ">>>>, <<"ჹ", <<"Ჹ">>>>, <<"ჺ", <<"Ჺ">>>>,
    <<"ჽ", <<"Ჽ">>>>, <<"ჾ", <<"Ჾ">>>>, <<"ჿ", <<"Ჿ">>>>, <<"ᏸ", <<"Ᏸ">>>>, <<"ᏹ", <<"Ᏹ">>>>,
    <<"ᏺ", <<"Ᏺ">>>>, <<"ᏻ", <<"Ᏻ">>>>, <<"ᏼ", <<"Ᏼ">>>>, <<"ᏽ", <<"Ᏽ">>>>,
    <<"ᲀ", <<"U+0412">>>>, <<"ᲁ", <<"U+0414">>>>, <<"ᲂ", <<"U+041E">>>>, <<"ᲃ", <<"U+0421">>>>,
    <<"ᲄ", <<"U+0422">>>>, <<"ᲅ", <<"U+0422">>>>, <<"ᲆ", <<"U+042A">>>>, <<"ᲇ", <<"U+0462">>>>,
    <<"ᲈ", <<"U+A64A">>>>, <<"ᶎ", <<"Ᶎ">>>>, <<"ẁ", <<"Ẁ">>>>, <<"ẃ", <<"Ẃ">>>>,
    <<"ẅ", <<"Ẅ">>>>, <<"ẇ", <<"Ẇ">>>>, <<"ẉ", <<"Ẉ">>>>, <<"ẋ", <<"Ẋ">>>>, <<"ẍ", <<"Ẍ">>>>,
    <<"ẏ", <<"Ẏ">>>>, <<"ẑ", <<"Ẑ">>>>, <<"ẓ", <<"Ẓ">>>>, <<"ẕ", <<"Ẕ">>>>,
    <<"ẖ", <<"H", "U+0331">>>>, <<"ẗ", <<"T", "U+0308">>>>, <<"ẘ", <<"W", "U+030A">>>>,
    <<"ẙ", <<"Y", "U+030A">>>>, <<"ẚ", <<"A", "ʾ">>>>, <<"ẛ", <<"U+1E60">>>>, <<"ạ", <<"Ạ">>>>,
    <<"ả", <<"Ả">>>>, <<"ấ", <<"Ấ">>>>, <<"ầ", <<"Ầ">>>>, <<"ẩ", <<"Ẩ">>>>, <<"ẫ", <<"Ẫ">>>>,
    <<"ậ", <<"Ậ">>>>, <<"ắ", <<"Ắ">>>>, <<"ằ", <<"Ằ">>>>, <<"ẳ", <<"Ẳ">>>>, <<"ẵ", <<"Ẵ">>>>,
    <<"ặ", <<"Ặ">>>>, <<"ẹ", <<"Ẹ">>>>, <<"ẻ", <<"Ẻ">>>>, <<"ẽ", <<"Ẽ">>>>, <<"ế", <<"Ế">>>>,
    <<"ề", <<"Ề">>>>, <<"ể", <<"Ể">>>>, <<"ễ", <<"Ễ">>>>, <<"ệ", <<"Ệ">>>>, <<"ỉ", <<"Ỉ">>>>,
    <<"ị", <<"Ị">>>>, <<"ọ", <<"Ọ">>>>, <<"ỏ", <<"Ỏ">>>>, <<"ố", <<"Ố">>>>, <<"ồ", <<"Ồ">>>>,
    <<"ổ", <<"Ổ">>>>, <<"ỗ", <<"Ỗ">>>>, <<"ộ", <<"Ộ">>>>, <<"ớ", <<"Ớ">>>>, <<"ờ", <<"Ờ">>>>,
    <<"ở", <<"Ở">>>>, <<"ỡ", <<"Ỡ">>>>, <<"ợ", <<"Ợ">>>>, <<"ụ", <<"Ụ">>>>, <<"ủ", <<"Ủ">>>>,
    <<"ứ", <<"Ứ">>>>, <<"ừ", <<"Ừ">>>>, <<"ử", <<"Ử">>>>, <<"ữ", <<"Ữ">>>>, <<"ự", <<"Ự">>>>,
    <<"ỳ", <<"Ỳ">>>>, <<"ỵ", <<"Ỵ">>>>, <<"ỷ", <<"Ỷ">>>>, <<"ỹ", <<"Ỹ">>>>, <<"ỻ", <<"Ỻ">>>>,
    <<"ỽ", <<"Ỽ">>>>, <<"ỿ", <<"Ỿ">>>>, <<"ᾀ", <<"U+1F08", "Ι">>>>, <<"ᾁ", <<"U+1F09", "Ι">>>>,
    <<"ᾂ", <<"U+1F0A", "Ι">>>>, <<"ᾃ", <<"U+1F0B", "Ι">>>>, <<"ᾄ", <<"U+1F0C", "Ι">>>>,
    <<"ᾅ", <<"U+1F0D", "Ι">>>>, <<"ᾆ", <<"U+1F0E", "Ι">>>>, <<"ᾇ", <<"U+1F0F", "Ι">>>>,
    <<"ᾈ", <<"U+1F08", "Ι">>>>, <<"ᾉ", <<"U+1F09", "Ι">>>>, <<"ᾊ", <<"U+1F0A", "Ι">>>>,
    <<"ᾋ", <<"U+1F0B", "Ι">>>>, <<"ᾌ", <<"U+1F0C", "Ι">>>>, <<"ᾍ", <<"U+1F0D", "Ι">>>>,
    <<"ᾎ", <<"U+1F0E", "Ι">>>>, <<"ᾏ", <<"U+1F0F", "Ι">>>>, <<"ᾐ", <<"U+1F28", "Ι">>>>,
    <<"ᾑ", <<"U+1F29", "Ι">>>>, <<"ᾒ", <<"U+1F2A", "Ι">>>>, <<"ᾓ", <<"U+1F2B", "Ι">>>>,
    <<"ᾔ", <<"U+1F2C", "Ι">>>>, <<"ᾕ", <<"U+1F2D", "Ι">>>>, <<"ᾖ", <<"U+1F2E", "Ι">>>>,
    <<"ᾗ", <<"U+1F2F", "Ι">>>>, <<"ᾘ", <<"U+1F28", "Ι">>>>, <<"ᾙ", <<"U+1F29", "Ι">>>>,
    <<"ᾚ", <<"U+1F2A", "Ι">>>>, <<"ᾛ", <<"U+1F2B", "Ι">>>>, <<"ᾜ", <<"U+1F2C", "Ι">>>>,
    <<"ᾝ", <<"U+1F2D", "Ι">>>>, <<"ᾞ", <<"U+1F2E", "Ι">>>>, <<"ᾟ", <<"U+1F2F", "Ι">>>>,
    <<"ᾠ", <<"U+1F68", "Ι">>>>, <<"ᾡ", <<"U+1F69", "Ι">>>>, <<"ᾢ", <<"U+1F6A", "Ι">>>>,
    <<"ᾣ", <<"U+1F6B", "Ι">>>>, <<"ᾤ", <<"U+1F6C", "Ι">>>>, <<"ᾥ", <<"U+1F6D", "Ι">>>>,
    <<"ᾦ", <<"U+1F6E", "Ι">>>>, <<"ᾧ", <<"U+1F6F", "Ι">>>>, <<"ᾨ", <<"U+1F68", "Ι">>>>,
    <<"ᾩ", <<"U+1F69", "Ι">>>>, <<"ᾪ", <<"U+1F6A", "Ι">>>>, <<"ᾫ", <<"U+1F6B", "Ι">>>>,
    <<"ᾬ", <<"U+1F6C", "Ι">>>>, <<"ᾭ", <<"U+1F6D", "Ι">>>>, <<"ᾮ", <<"U+1F6E", "Ι">>>>,
    <<"ᾯ", <<"U+1F6F", "Ι">>>>, <<"ᾰ", <<"Ᾰ">>>>, <<"ᾱ", <<"Ᾱ">>>>, <<"ᾲ", <<"Ὰ", "Ι">>>>,
    <<"ᾳ", <<"Α", "Ι">>>>, <<"ᾴ", <<"Ά", "Ι">>>>, <<"ᾶ", <<"Α", "U+0342">>>>,
    <<"ᾷ", <<"Α", "U+0342", "Ι">>>>, <<"ᾼ", <<"Α", "Ι">>>>, <<"ι", <<"Ι">>>>,
    <<"ῂ", <<"Ὴ", "Ι">>>>, <<"ῃ", <<"Η", "Ι">>>>, <<"ῄ", <<"Ή", "Ι">>>>,
    <<"ῆ", <<"Η", "U+0342">>>>, <<"ῇ", <<"Η", "U+0342", "Ι">>>>, <<"ῌ", <<"Η", "Ι">>>>,
    <<"ῐ", <<"Ῐ">>>>, <<"ῑ", <<"Ῑ">>>>, <<"ῒ", <<"Ι", "U+0308", "U+0300">>>>,
    <<"ΐ", <<"Ι", "U+0308", "U+0301">>>>, <<"ῖ", <<"Ι", "U+0342">>>>,
    <<"ῗ", <<"Ι", "U+0308", "U+0342">>>>, <<"ῠ", <<"Ῠ">>>>, <<"ῡ", <<"Ῡ">>>>,
    <<"ῢ", <<"Υ", "U+0308", "U+0300">>>>, <<"ΰ", <<"Υ", "U+0308", "U+0301">>>>,
    <<"ῤ", <<"Ρ", "U+0313">>>>, <<"ῥ", <<"Ῥ">>>>, <<"ῦ", <<"Υ", "U+0342">>>>,
    <<"ῧ", <<"Υ", "U+0308", "U+0342">>>>, <<"ῲ", <<"Ὼ", "Ι">>>>, <<"ῳ", <<"Ω", "Ι">>>>,
    <<"ῴ", <<"Ώ", "Ι">>>>, <<"ῶ", <<"Ω", "U+0342">>>>, <<"ῷ", <<"Ω", "U+0342", "Ι">>>>,
    <<"ῼ", <<"Ω", "Ι">>>>, <<"ↄ", <<"Ↄ">>>>, <<"ⓐ", <<"Ⓐ">>>>, <<"ⓑ", <<"Ⓑ">>>>,
    <<"ⓒ", <<"Ⓒ">>>>, <<"ⓓ", <<"Ⓓ">>>>, <<"ⓔ", <<"Ⓔ">>>>, <<"ⓕ", <<"Ⓕ">>>>, <<"ⓖ", <<"Ⓖ">>>>,
    <<"ⓗ", <<"Ⓗ">>>>, <<"ⓘ", <<"Ⓘ">>>>, <<"ⓙ", <<"Ⓙ">>>>, <<"ⓚ", <<"Ⓚ">>>>, <<"ⓛ", <<"Ⓛ">>>>,
    <<"ⓜ", <<"Ⓜ">>>>, <<"ⓝ", <<"Ⓝ">>>>, <<"ⓞ", <<"Ⓞ">>>>, <<"ⓟ", <<"Ⓟ">>>>, <<"ⓠ", <<"Ⓠ">>>>,
    <<"ⓡ", <<"Ⓡ">>>>, <<"ⓢ", <<"Ⓢ">>>>, <<"ⓣ", <<"Ⓣ">>>>, <<"ⓤ", <<"Ⓤ">>>>, <<"ⓥ", <<"Ⓥ">>>>,
    <<"ⓦ", <<"Ⓦ">>>>, <<"ⓧ", <<"Ⓧ">>>>, <<"ⓨ", <<"Ⓨ">>>>, <<"ⓩ", <<"Ⓩ">>>>, <<"ⲁ", <<"Ⲁ">>>>,
    <<"ⲃ", <<"Ⲃ">>>>, <<"ⲅ", <<"Ⲅ">>>>, <<"ⲇ", <<"Ⲇ">>>>, <<"ⲉ", <<"Ⲉ">>>>, <<"ⲋ", <<"Ⲋ">>>>,
    <<"ⲍ", <<"Ⲍ">>>>, <<"ⲏ", <<"Ⲏ">>>>, <<"ⲑ", <<"Ⲑ">>>>, <<"ⲓ", <<"Ⲓ">>>>, <<"ⲕ", <<"Ⲕ">>>>,
    <<"ⲗ", <<"Ⲗ">>>>, <<"ⲙ", <<"Ⲙ">>>>, <<"ⲛ", <<"Ⲛ">>>>, <<"ⲝ", <<"Ⲝ">>>>, <<"ⲟ", <<"Ⲟ">>>>,
    <<"ⲡ", <<"Ⲡ">>>>, <<"ⲣ", <<"Ⲣ">>>>, <<"ⲥ", <<"Ⲥ">>>>, <<"ⲧ", <<"Ⲧ">>>>, <<"ⲩ", <<"Ⲩ">>>>,
    <<"ⲫ", <<"Ⲫ">>>>, <<"ⲭ", <<"Ⲭ">>>>, <<"ⲯ", <<"Ⲯ">>>>, <<"ⲱ", <<"Ⲱ">>>>, <<"ⲳ", <<"Ⲳ">>>>,
    <<"ⲵ", <<"Ⲵ">>>>, <<"ⲷ", <<"Ⲷ">>>>, <<"ⲹ", <<"Ⲹ">>>>, <<"ⲻ", <<"Ⲻ">>>>, <<"ⲽ", <<"Ⲽ">>>>,
    <<"ⲿ", <<"Ⲿ">>>>, <<"ⳁ", <<"Ⳁ">>>>, <<"ⳃ", <<"Ⳃ">>>>, <<"ⳅ", <<"Ⳅ">>>>, <<"ⳇ", <<"Ⳇ">>>>,
    <<"ⳉ", <<"Ⳉ">>>>, <<"ⳋ", <<"Ⳋ">>>>, <<"ⳍ", <<"Ⳍ">>>>, <<"ⳏ", <<"Ⳏ">>>>, <<"ⳑ", <<"Ⳑ">>>>,
    <<"ⳓ", <<"Ⳓ">>>>, <<"ⳕ", <<"Ⳕ">>>>, <<"ⳗ", <<"Ⳗ">>>>, <<"ⳙ", <<"Ⳙ">>>>, <<"ⳛ", <<"Ⳛ">>>>,
    <<"ⳝ", <<"Ⳝ">>>>, <<"ⳟ", <<"Ⳟ">>>>, <<"ⳡ", <<"Ⳡ">>>>, <<"ⳣ", <<"Ⳣ">>>>, <<"ⳬ", <<"Ⳬ">>>>,
    <<"ⳮ", <<"Ⳮ">>>>, <<"ⳳ", <<"Ⳳ">>>>, <<"ꚁ", <<"Ꚁ">>>>, <<"ꚃ", <<"Ꚃ">>>>, <<"ꚅ", <<"Ꚅ">>>>,
    <<"ꚇ", <<"Ꚇ">>>>, <<"ꚉ", <<"Ꚉ">>>>, <<"ꚋ", <<"Ꚋ">>>>, <<"ꚍ", <<"Ꚍ">>>>, <<"ꚏ", <<"Ꚏ">>>>,
    <<"ꚑ", <<"Ꚑ">>>>, <<"ꚓ", <<"Ꚓ">>>>, <<"ꚕ", <<"Ꚕ">>>>, <<"ꚗ", <<"Ꚗ">>>>, <<"ꚙ", <<"Ꚙ">>>>,
    <<"ꚛ", <<"Ꚛ">>>>, <<"ꞁ", <<"Ꞁ">>>>, <<"ꞃ", <<"Ꞃ">>>>, <<"ꞅ", <<"Ꞅ">>>>, <<"ꞇ", <<"Ꞇ">>>>,
    <<"ꞌ", <<"Ꞌ">>>>, <<"ꞑ", <<"Ꞑ">>>>, <<"ꞓ", <<"Ꞓ">>>>, <<"ꞔ", <<"Ꞔ">>>>, <<"ꞗ", <<"Ꞗ">>>>,
    <<"ꞙ", <<"Ꞙ">>>>, <<"ꞛ", <<"Ꞛ">>>>, <<"ꞝ", <<"Ꞝ">>>>, <<"ꞟ", <<"Ꞟ">>>>, <<"ꞡ", <<"Ꞡ">>>>,
    <<"ꞣ", <<"Ꞣ">>>>, <<"ꞥ", <<"Ꞥ">>>>, <<"ꞧ", <<"Ꞧ">>>>, <<"ꞩ", <<"Ꞩ">>>>, <<"ꞵ", <<"Ꞵ">>>>,
    <<"ꞷ", <<"Ꞷ">>>>, <<"ꞹ", <<"Ꞹ">>>>, <<"ꞻ", <<"Ꞻ">>>>, <<"ꞽ", <<"Ꞽ">>>>, <<"ꞿ", <<"Ꞿ">>>>,
    <<"ꟁ", <<"Ꟁ">>>>, <<"ꟃ", <<"Ꟃ">>>>, <<"ꟈ", <<"Ꟈ">>>>, <<"ꟊ", <<"Ꟊ">>>>, <<"ꟑ", <<"Ꟑ">>>>,
    <<"ꟗ", <<"Ꟗ">>>>, <<"ꟙ", <<"Ꟙ">>>>, <<"ꟶ", <<"Ꟶ">>>>, <<"ꮀ", <<"Ꮀ">>>>, <<"ꮁ", <<"Ꮁ">>>>,
    <<"ꮂ", <<"Ꮂ">>>>, <<"ꮃ", <<"Ꮃ">>>>, <<"ꮄ", <<"Ꮄ">>>>, <<"ꮅ", <<"Ꮅ">>>>, <<"ꮆ", <<"Ꮆ">>>>,
    <<"ꮇ", <<"Ꮇ">>>>, <<"ꮈ", <<"Ꮈ">>>>, <<"ꮉ", <<"Ꮉ">>>>, <<"ꮊ", <<"Ꮊ">>>>, <<"ꮋ", <<"Ꮋ">>>>,
    <<"ꮌ", <<"Ꮌ">>>>, <<"ꮍ", <<"Ꮍ">>>>, <<"ꮎ", <<"Ꮎ">>>>, <<"ꮏ", <<"Ꮏ">>>>, <<"ꮐ", <<"Ꮐ">>>>,
    <<"ꮑ", <<"Ꮑ">>>>, <<"ꮒ", <<"Ꮒ">>>>, <<"ꮓ", <<"Ꮓ">>>>, <<"ꮔ", <<"Ꮔ">>>>, <<"ꮕ", <<"Ꮕ">>>>,
    <<"ꮖ", <<"Ꮖ">>>>, <<"ꮗ", <<"Ꮗ">>>>, <<"ꮘ", <<"Ꮘ">>>>, <<"ꮙ", <<"Ꮙ">>>>, <<"ꮚ", <<"Ꮚ">>>>,
    <<"ꮛ", <<"Ꮛ">>>>, <<"ꮜ", <<"Ꮜ">>>>, <<"ꮝ", <<"Ꮝ">>>>, <<"ꮞ", <<"Ꮞ">>>>, <<"ꮟ", <<"Ꮟ">>>>,
    <<"ꮠ", <<"Ꮠ">>>>, <<"ꮡ", <<"Ꮡ">>>>, <<"ꮢ", <<"Ꮢ">>>>, <<"ꮣ", <<"Ꮣ">>>>, <<"ꮤ", <<"Ꮤ">>>>,
    <<"ꮥ", <<"Ꮥ">>>>, <<"ꮦ", <<"Ꮦ">>>>, <<"ꮧ", <<"Ꮧ">>>>, <<"ꮨ", <<"Ꮨ">>>>, <<"ꮩ", <<"Ꮩ">>>>,
    <<"ꮪ", <<"Ꮪ">>>>, <<"ꮫ", <<"Ꮫ">>>>, <<"ꮬ", <<"Ꮬ">>>>, <<"ꮭ", <<"Ꮭ">>>>, <<"ꮮ", <<"Ꮮ">>>>,
    <<"ꮯ", <<"Ꮯ">>>>, <<"ꮰ", <<"Ꮰ">>>>, <<"ꮱ", <<"Ꮱ">>>>, <<"ꮲ", <<"Ꮲ">>>>, <<"ꮳ", <<"Ꮳ">>>>,
    <<"ꮴ", <<"Ꮴ">>>>, <<"ꮵ", <<"Ꮵ">>>>, <<"ꮶ", <<"Ꮶ">>>>, <<"ꮷ", <<"Ꮷ">>>>, <<"ꮸ", <<"Ꮸ">>>>,
    <<"ꮹ", <<"Ꮹ">>>>, <<"ꮺ", <<"Ꮺ">>>>, <<"ꮻ", <<"Ꮻ">>>>, <<"ꮼ", <<"Ꮼ">>>>, <<"ꮽ", <<"Ꮽ">>>>,
    <<"ꮾ", <<"Ꮾ">>>>, <<"ꮿ", <<"Ꮿ">>>>}

AsciiLower == <<"a", "b", "c", "d", "e", "f", "g", "h", "i", "j", "k", "l", "m",
                "n", "o", "p", "q", "r", "s", "t", "u", "v", "w", "x", "y", "z">>
AsciiUpper == <<"A", "B", "C", "D", "E", "F", "G", "H", "I", "J", "K", "L", "M",
                "N", "O", "P", "Q", "R", "S", "T", "U", "V", "W", "X", "Y", "Z">>
UpperChar(c) ==
    IF \E i \in 1..Len(AsciiLower) : AsciiLower[i] = c
    THEN <<AsciiUpper[CHOOSE i \in 1..Len(AsciiLower) : AsciiLower[i] = c]>>
    ELSE IF \E e \in UpperTable : e[1] = c
         THEN (CHOOSE e \in UpperTable : e[1] = c)[2]
         ELSE <<c>>
RECURSIVE Upper(_)
Upper(s) == IF s = <<>> THEN <<>> ELSE UpperChar(Head(s)) \o Upper(Tail(s))

\* An optional text: <<>> is Python's None, <<t>> the text t.  "if x:" is true
\* of a text that is there and not empty.
Absent == <<>>
Some(t) == <<t>>
Truthy(x) == x # Absent /\ x[1] # <<>>

CpfLen == 11

\* validate_cpf: eleven characters of str.isdigit() once '.', '-' and the outer
\* whitespace are removed.
validate_cpf(cpf) ==
    /\ cpf # <<>>
    /\ LET cpf_clean == Strip(Replace(Replace(cpf, "."), "-"))
       IN Len(cpf_clean) = CpfLen /\ IsDigits(cpf_clean)

\* datetime.strptime fields, by the regular expressions of _strptime:
\* %d is 3[0-1]|[1-2]\d|0[1-9]|[1-9]| [1-9], %m is 1[0-2]|0[1-9]|[1-9], %Y is
\* \d\d\d\d, where \d is a decimal digit of any script; the year is 1 at the
\* least and the date must exist.
OneToNine == {"1", "2", "3", "4", "5", "6", "7", "8", "9"}
DayField(f) ==
    \/ Len(f) = 2 /\ f[1] = "3" /\ f[2] \in {"0", "1"}
    \/ Len(f) = 2 /\ f[1] \in {"1", "2"} /\ IsDecimalChar(f[2])
    \/ Len(f) = 2 /\ f[1] = "0" /\ f[2] \in OneToNine
    \/ Len(f) = 1 /\ f[1] \in OneToNine
    \/ Len(f) = 2 /\ f[1] = " " /\ f[2] \in OneToNine
MonthField(f) ==
    \/ Len(f) = 2 /\ f[1] = "1" /\ f[2] \in {"0", "1", "2"}
    \/ Len(f) = 2 /\ f[1] = "0" /\ f[2] \in OneToNine
    \/ Len(f) = 1 /\ f[1] \in OneToNine
YearField(f) == Len(f) = 4 /\ IsDecimals(f) /\ ToNat(f) >= 1
LeapYear(y) == y % 4 = 0 /\ (y % 100 # 0 \/ y % 400 = 0)
DaysIn(m, y) == IF m = 2 THEN (IF LeapYear(y) THEN 29 ELSE 28)
                ELSE IF m \in {4, 6, 9, 11} THEN 30 ELSE 31
IsDate(d, m, y) ==
    /\ DayField(d) /\ MonthField(m) /\ YearField(y)
    /\ ToNat(Replace(d, " ")) <= DaysIn(ToNat(m), ToNat(y))

\* strptime(text, "%d/%m/%Y") and strptime(text, "%Y-%m-%d") succeed.
ParsesDayFirst(text) ==
    LET f == Split(text, "/") IN Len(f) = 3 /\ IsDate(f[1], f[2], f[3])
ParsesIso(text) ==
    LET f == Split(text, "-") IN Len(f) = 3 /\ IsDate(f[3], f[2], f[1])

\* validate_date_of_birth: DD/MM/YYYY, or else YYYY-MM-DD.
validate_date_of_birth(date_str) ==
    /\ date_str # <<>>
    /\ ParsesDayFirst(Strip(date_str)) \/ ParsesIso(Strip(date_str))

\* ------------------------------------------------------------- create_appointment
create_appointment(p, doctor_id, slot_id, cpf, clinic_id, insurance_type) ==
    /\ Begin(p, [op |-> "book", call |-> calls + 1, slot |-> slot_id, cpf |-> cpf,
                 doctor |-> doctor_id, clinic |-> Strip(clinic_id),
                 insurance |-> insurance_type, appt |-> 0])
    /\ pc' = [pc EXCEPT ![p] = "patient"]

\* ------------------------------------------------------------- schedule_appointment
\* The texts of identity key k: plain, and punctuated as 000.000.000-00.
CpfText(k) == [i \in 1..CpfLen |-> DigitChars[k + 1]]
CpfPunctuated(k) ==
    LET d == DigitChars[k + 1]
    IN <<d, d, d, ".", d, d, d, ".", d, d, d, "-", d, d>>

\* The two values of the enumeration insurancetype.
PARTICULAR == <<"P", "A", "R", "T", "I", "C", "U", "L", "A", "R">>
HEALTH_PLAN == <<"H", "E", "A", "L", "T", "H", "_", "P", "L", "A", "N">>
\* Mutant of valid_types: a third value is let through.
valid_types_open == {PARTICULAR, HEALTH_PLAN, <<"S", "U", "S">>}

valid_types == {PARTICULAR, HEALTH_PLAN}

\* schedule_appointment's insurance_type: stripped and upper-cased when given,
\* then PARTICULAR unless it is one of valid_types; the same value goes into
\* patient_data['insurance_type'] and into create_appointment's insurance_type.
schedule_insurance_type(insurance_type) ==
    LET given == IF Truthy(insurance_type)
                 THEN Some(Upper(Strip(insurance_type[1])))
                 ELSE Absent
    IN IF Truthy(given)
       THEN LET upper == Upper(given[1])
            IN IF upper \in valid_types THEN upper ELSE PARTICULAR
       ELSE PARTICULAR

\* _get_or_create_patient and _insert_appointment: upper-cased and stripped
\* when given, then PARTICULAR unless it is one of valid_types.
stored_insurance_type(insurance_type) ==
    IF Truthy(insurance_type)
    THEN LET upper == Strip(Upper(insurance_type[1]))
         IN IF upper \in valid_types THEN upper ELSE PARTICULAR
    ELSE PARTICULAR

\* The checks of schedule_appointment, in the code's order: the key, the date
\* of birth, the name, the three references.
ValidBook(a) ==
    /\ validate_cpf(Strip(a.patient_cpf))
    /\ validate_date_of_birth(Strip(a.patient_date_of_birth))
    /\ Len(Strip(a.patient_name)) >= 3
    /\ a.doctor_id # 0 /\ a.slot_id # 0 /\ a.clinic_id # <<>>

\* The requests of schedule_appointment: those it accepts (GoodBooks), every
\* key with every slot, the key also punctuated or padded and the date of birth
\* also as YYYY-MM-DD, and those it refuses (BadBooks), an accepted request
\* with one field made wrong.
GoodName == <<"A", "n", "a">>
ShortName == <<"A", "l">>
DobDayFirst == <<"1", "5", "/", "0", "3", "/", "1", "9", "9", "0">>
DobIso == <<"1", "9", "9", "0", "-", "0", "3", "-", "1", "5">>
\* 1۵/03/1990: the second digit of the day in another script is a \d; the
\* first digit of a two-digit day is not.
DobOtherScript == <<"1", "۵", "/", "0", "3", "/", "1", "9", "9", "0">>
BadDobs == {<<"3", "1", "/", "0", "2", "/", "1", "9", "9", "0">>,
            <<"۱", "۵", "/", "0", "3", "/", "1", "9", "9", "0">>,
            <<"1", "5", "/", "0", "3", "/", "1", "9", "9", "²">>,
            <<"1", "9", "9", "0", "/", "0", "3", "/", "1", "5">>,
            <<"1", "5", "/", "0", "3", "/", "9", "0">>,
            <<>>}
\* Eleven superscript twos: str.isdigit() is true of them.
SuperscriptCpf == [i \in 1..CpfLen |-> "²"]
BadCpfs == {SubSeq(CpfText(1), 1, CpfLen - 1), CpfText(1) \o <<"1">>,
            [CpfText(1) EXCEPT ![CpfLen] = "x"],
            <<"1", "1", "1", " ", "1", "1", "1", " ", "1", "1", "1", " ", "1", "1">>,
            <<" ", " ">>, <<>>}
SomeDoctor == 1
TheClinic == <<"c", "1", "-", "u", "u", "i", "d">>
\* A second doctor, of a second clinic: rows of doctors and clinics that own
\* no slot of the model.
OtherDoctor == 2
OtherClinic == <<"c", "2", "-", "u", "u", "i", "d">>
\* available_slots.doctor_id and available_slots.clinic_id: the owners of a slot.
SlotDoctor(s) == SomeDoctor
SlotClinic(s) == TheClinic
GoodBook == [patient_name |-> GoodName, patient_cpf |-> CpfText(1),
             patient_date_of_birth |-> DobDayFirst,
             doctor_id |-> SomeDoctor, slot_id |-> 1, clinic_id |-> TheClinic,
             insurance_type |-> Absent]
InsuranceTexts == {<<>>, <<" ", " ">>,
                   <<"h", "e", "a", "l", "t", "h", "_", "p", "l", "a", "n">>,
                   <<" ", "H", "e", "a", "l", "t", "h", "_", "P", "l", "a", "n", " ">>,
                   <<"p", "a", "r", "t", "i", "c", "u", "l", "a", "r">>,
                   <<"H", "E", "A", "L", "T", "H", " ", "P", "L", "A", "N">>,
                   <<"h", "e", "a", "l", "t", "h", "_", "p", "l", "a", "n", "\n">>,
                   <<"s", "a", "ú", "d", "e">>, <<"x", "ß", "µ">>,
                   <<"s", "u", "s">>}
\* A clinic reference of blanks only: true in "if clinic_id" and in all([...]).
BlankClinic == <<" ", " ">>
GoodBooks == {[GoodBook EXCEPT !.patient_cpf = CpfText(k), !.slot_id = s] :
                 k \in Cpfs, s \in Slots \cup {NoSlot}}
             \cup {[GoodBook EXCEPT !.clinic_id = BlankClinic]}
             \cup {[GoodBook EXCEPT !.patient_cpf = CpfPunctuated(1)],
                   [GoodBook EXCEPT !.patient_cpf = <<" ">> \o CpfText(1) \o <<" ">>],
                   [GoodBook EXCEPT !.patient_date_of_birth = DobIso]}
             \cup {[GoodBook EXCEPT !.doctor_id = OtherDoctor],
                   [GoodBook EXCEPT !.clinic_id = OtherClinic]}
             \cup {[GoodBook EXCEPT !.patient_cpf = <<"-", " ">> \o CpfText(1)],
                   [GoodBook EXCEPT !.patient_cpf = CpfText(1) \o <<" ", ".">>]}
             \cup {[GoodBook EXCEPT !.patient_cpf = <<"\t">> \o CpfText(1)],
                   [GoodBook EXCEPT !.patient_cpf = CpfText(1) \o <<"\n">>],
                   [GoodBook EXCEPT !.patient_cpf = SuperscriptCpf],
                   [GoodBook EXCEPT !.patient_date_of_birth = <<"\t">> \o DobDayFirst],
                   [GoodBook EXCEPT !.patient_date_of_birth = DobDayFirst \o <<"\n">>],
                   [GoodBook EXCEPT !.patient_date_of_birth = DobIso \o <<"\r", "\n">>],
                   [GoodBook EXCEPT !.patient_date_of_birth = DobOtherScript]}
             \cup {[GoodBook EXCEPT !.insurance_type = Some(t)] : t \in InsuranceTexts}
BadBooks == {[GoodBook EXCEPT !.patient_cpf = t] : t \in BadCpfs}
            \cup {[GoodBook EXCEPT !.patient_date_of_birth = d] : d \in BadDobs}
            \cup {[GoodBook EXCEPT !.patient_name = ShortName],
                  [GoodBook EXCEPT !.patient_name = <<"\t">> \o ShortName \o <<"\t">>],
                  [GoodBook EXCEPT !.doctor_id = 0],
                  [GoodBook EXCEPT !.slot_id = 0],
                  [GoodBook EXCEPT !.clinic_id = <<>>]}
AllBooks == GoodBooks \cup BadBooks

\* The requests in a table, so that a call names its request by its row.
RECURSIVE Listed(_)
Listed(S) == IF S = {} THEN <<>> ELSE LET a == CHOOSE a \in S : TRUE IN <<a>> \o Listed(S \ {a})
Requests == Listed(AllBooks)

\* patient_data['cpf']: the key the storage is given is the stripped text
\* without '.' and '-'.  Cpfs number the texts of eleven equal digits 0-9; every
\* other key text of the requests is a key of its own, numbered after them.
KeyText(patient_cpf) == Replace(Replace(patient_cpf, "."), "-")
OddKeyTexts == Listed({KeyText(Strip(a.patient_cpf)) : a \in AllBooks}
                      \ {CpfText(k) : k \in Cpfs})
CpfKey(patient_cpf) ==
    LET cpf == KeyText(patient_cpf) IN
    IF \E k \in Cpfs : CpfText(k) = cpf
    THEN CHOOSE k \in Cpfs : CpfText(k) = cpf
    ELSE NumCpfs + (CHOOSE n \in 1..Len(OddKeyTexts) : OddKeyTexts[n] = cpf)

\* What schedule_appointment computes from each request before it calls the
\* storage: the verdict of its checks and the key it hands to create_appointment.
RECURSIVE CheckEach(_)
CheckEach(reqs) ==
    IF reqs = <<>> THEN <<>>
    ELSE LET a == Head(reqs)
         IN <<[valid |-> ValidBook(a), cpf |-> CpfKey(Strip(a.patient_cpf)),
               cpf_text |-> KeyText(Strip(a.patient_cpf)),
               doctor_id |-> a.doctor_id, slot_id |-> a.slot_id, clinic_id |-> a.clinic_id,
               insurance_type |-> schedule_insurance_type(a.insurance_type),
               kind |-> IF a.insurance_type # Absent THEN "insurance"
                        ELSE IF ValidBook(a) /\ Strip(a.clinic_id) = <<>> THEN "blank"
                        ELSE IF /\ ValidBook(a)
                                /\ \/ a.doctor_id # SlotDoctor(a.slot_id)
                                   \/ Strip(a.clinic_id) # SlotClinic(a.slot_id)
                             THEN "foreign"
                             ELSE "plain"]>>
            \o CheckEach(Tail(reqs))
Checked == CheckEach(Requests)

\* return {"status": "error", ...} before create_appointment is called: the
\* call is over in one step and opens no connection.
schedule_appointment_rejects(p) ==
    /\ ~Active(p)
    /\ \A q \in Procs : q < p => Active(q)
    /\ calls < MaxCalls
    /\ calls' = calls + 1
    /\ pc' = [pc EXCEPT ![p] = "done"]
    /\ result' = [result EXCEPT ![p] = "invalid"]
    /\ req' = [req EXCEPT ![p] = [op |-> "book", call |-> calls + 1, slot |-> 0,
                                  cpf |-> 0, doctor |-> 0, clinic |-> <<>>,
                                  insurance |-> <<>>, appt |-> 0]]
    /\ loc' = [loc EXCEPT ![p] = NoLoc]
    /\ lastDone' = [op |-> "book", call |-> calls + 1, slot |-> 0, cpf |-> 0,
                    result |-> "invalid", confirmed |-> FALSE, inserted |-> FALSE]
    /\ overlap' = [q \in Procs |->
                     IF q = p THEN {x \in Procs \ {p} : Active(x)}
                     ELSE IF Active(q) THEN overlap[q] \cup {p} ELSE overlap[q]]
    /\ solo' = [q \in Procs |-> FALSE]
    /\ UNCHANGED <<db, tx, faults>>

\* What the two INSERTs store for each value schedule_appointment passes on:
\* stored_insurance_type of the value, worked out once per value.
InsuranceArgs == Listed({Checked[i].insurance_type : i \in 1..Len(Checked)})
RECURSIVE StoreEach(_)
StoreEach(args) ==
    IF args = <<>> THEN <<>>
    ELSE <<stored_insurance_type(Some(Head(args)))>> \o StoreEach(Tail(args))
StoredInsurance == StoreEach(InsuranceArgs)
Stored(insurance_type) ==
    StoredInsurance[CHOOSE k \in 1..Len(InsuranceArgs) : InsuranceArgs[k] = insurance_type]

\* %s::insurancetype: the value of the enumeration that the text names.
insurancetype(text) == IF text = HEALTH_PLAN THEN "HEALTH_PLAN"
                       ELSE IF text = PARTICULAR THEN "PARTICULAR"
                       ELSE "invalid"

\* Session p calls schedule_appointment with request i of the table.
schedule_appointment(p, i) ==
    IF Checked[i].valid
    THEN create_appointment(p, Checked[i].doctor_id, Checked[i].slot_id, Checked[i].cpf,
                            Checked[i].clinic_id, Checked[i].insurance_type)
    ELSE schedule_appointment_rejects(p)

\* ------------------------------------------------------------- _get_or_create_patient
\* SELECT id FROM patients WHERE cpf = %s: the id of the row when there is one;
\* the profile the call supplies is then not used.
get_or_create_patient(p) ==
    /\ pc[p] = "patient"
    /\ LET found == {r \in patients : r.cpf = req[p].cpf} IN
       IF found # {}
       THEN /\ \E r \in found : loc' = [loc EXCEPT ![p].patient_id = r.id]
            /\ pc' = [pc EXCEPT ![p] = "check"]
       ELSE /\ UNCHANGED loc
            /\ pc' = [pc EXCEPT ![p] = "p_insert"]
    /\ UNCHANGED <<db, tx, req, result, calls, faults, overlap, lastDone, solo>>

\* The unique constraint of patients.cpf (the table is keyed by the identity
\* key, spec section 6): an INSERT of a key waits for the end of an open
\* transaction that has inserted the same key, and fails when a committed row
\* has it.
cpf_insert_waits(p, cpf) == \E q \in Procs \ {p} : \E r \in tx[q].pat : r.cpf = cpf

\* Mutant of cpf_unique_violation: patients.cpf carries no unique constraint.
cpf_not_constrained(cpf) == FALSE

cpf_unique_violation(cpf) == \E r \in patients : r.cpf = cpf

\* The profile a call supplies (name, date of birth, email, phone, insurance
\* type): every call supplies its own, told apart by the call's number.
Profile(p) == req[p].call

\* Mutant of get_or_create_patient_insert: the INSERT is committed on its own
\* (a conn.commit() in _get_or_create_patient), ahead of the appointment.
get_or_create_patient_insert_commits(p) ==
    /\ pc[p] = "p_insert"
    /\ ~cpf_insert_waits(p, req[p].cpf)
    /\ ~cpf_unique_violation(req[p].cpf)
    /\ loc' = [loc EXCEPT ![p].patient_id = req[p].call]
    /\ patients' = patients \cup {[id |-> req[p].call, cpf |-> req[p].cpf,
                                    profile |-> Profile(p),
                                    insurance |-> insurancetype(Stored(req[p].insurance))]}
    /\ pc' = [pc EXCEPT ![p] = "check"]
    /\ UNCHANGED <<slotAvail, appts, tx, req, result, calls, faults, overlap, lastDone, solo>>

\* INSERT INTO patients (...) VALUES (...) RETURNING id, with the call's profile.
get_or_create_patient_insert(p) ==
    /\ pc[p] = "p_insert"
    /\ ~cpf_insert_waits(p, req[p].cpf)
    /\ ~cpf_unique_violation(req[p].cpf)
    /\ loc' = [loc EXCEPT ![p].patient_id = req[p].call]
    /\ tx' = [tx EXCEPT ![p].pat = {[id |-> req[p].call, cpf |-> req[p].cpf,
                                     profile |-> Profile(p),
                                     insurance |-> insurancetype(Stored(req[p].insurance))]}]
    /\ pc' = [pc EXCEPT ![p] = "check"]
    /\ UNCHANGED <<db, req, result, calls, faults, overlap, lastDone, solo>>

\* The INSERT raises the unique violation: the except branch of
\* create_appointment rolls back and returns the error.
get_or_create_patient_conflict(p) ==
    /\ pc[p] = "p_insert"
    /\ ~cpf_insert_waits(p, req[p].cpf)
    /\ cpf_unique_violation(req[p].cpf)
    /\ Rollback(p)
    /\ Return(p, "error", FALSE)
    /\ UNCHANGED faults

\* SELECT is_available FROM available_slots WHERE id = %s: a plain read of the
\* committed row, no lock taken; no row reads as not available.
check_slot_available(slot_id) == slot_id \in Slots /\ slotAvail[slot_id]

\* Mutant of SlotUnavailableReturn: conn.commit() where the code calls conn.rollback().
SlotUnavailableCommits(p) ==
    /\ Commit(p)
    /\ Return(p, "unavailable", FALSE)

\* if not slot_check: conn.rollback(); return the slot-unavailable error.
SlotUnavailableReturn(p) ==
    /\ Rollback(p)
    /\ Return(p, "unavailable", FALSE)

\* slot_check = _check_slot_available(cur, slot_id): the SELECT alone.  The
\* transaction stays open, the patient row it may have inserted pending, until
\* the next statement of the call.
create_appointment_check(p) ==
    /\ pc[p] = "check"
    /\ pc' = [pc EXCEPT ![p] = IF check_slot_available(req[p].slot)
                               THEN "insert" ELSE "unavailable"]
    /\ UNCHANGED <<db, tx, req, loc, result, calls, faults, overlap, lastDone, solo>>

\* The branch taken when the SELECT answered not available, a round trip of
\* its own: other sessions may have run since the SELECT.
create_appointment_unavailable(p) ==
    /\ pc[p] = "unavailable"
    /\ SlotUnavailableReturn(p)
    /\ UNCHANGED faults

\* INSERT INTO appointments (...) VALUES (..., 'CONFIRMED', NOW()) RETURNING id.
insert_appointment(p) ==
    /\ pc[p] = "insert"
    /\ tx' = [tx EXCEPT ![p].app = {[id |-> req[p].call, slot |-> req[p].slot,
                                     patient |-> loc[p].patient_id,
                                     doctor |-> req[p].doctor,
                                     clinic |-> req[p].clinic,
                                     insurance |-> insurancetype(Stored(req[p].insurance)),
                                     status |-> "CONFIRMED", stamp |-> 0]}]
    /\ pc' = [pc EXCEPT ![p] = "block"]
    /\ UNCHANGED <<db, req, loc, result, calls, faults, overlap, lastDone, solo>>

\* _insert_appointment with clinic_id None (create_appointment turns the empty
\* text into None): the INSERT gives the column NULL.  The table's definition
\* is not part of src/: where the column admits NULL the row is inserted
\* (insert_appointment); where it is NOT NULL the statement raises on a usable
\* connection and the except branch rolls back and returns the error.
insert_appointment_null_clinic(p) ==
    /\ pc[p] = "insert"
    /\ req[p].clinic = <<>>
    /\ Rollback(p)
    /\ Return(p, "error", FALSE)
    /\ UNCHANGED faults

\* Mutant of block_slot: the UPDATE has no WHERE clause and writes every row.
block_slot_every_row(p) ==
    /\ pc[p] = "block"
    /\ ~SlotLockedByOther(p, req[p].slot)
    /\ tx' = [tx EXCEPT ![p].slot = {<<s, FALSE>> : s \in Slots}]
    /\ pc' = [pc EXCEPT ![p] = "commit"]
    /\ UNCHANGED <<db, req, loc, result, calls, faults, overlap, lastDone, solo>>

\* UPDATE available_slots SET is_available = FALSE WHERE id = %s: unconditional;
\* it waits while another open transaction holds the row.
block_slot(p) ==
    /\ pc[p] = "block"
    /\ ~SlotLockedByOther(p, req[p].slot)
    /\ tx' = [tx EXCEPT ![p].slot = {<<req[p].slot, FALSE>>}]
    /\ pc' = [pc EXCEPT ![p] = "commit"]
    /\ UNCHANGED <<db, req, loc, result, calls, faults, overlap, lastDone, solo>>

\* conn.commit(); return success with the appointment id.
create_appointment_commit(p) ==
    /\ pc[p] = "commit"
    /\ Commit(p)
    /\ Return(p, "success", FALSE)
    /\ UNCHANGED faults

\* What the except branch gives its caller.  Its first statement is
\* conn.rollback(), unguarded: when the statement failed on a connection that
\* is still usable the rollback runs and the error result is returned; when the
\* connection itself is lost the rollback raises in turn and the exception
\* leaves the function ("raised"; the server discards the transaction).
ExceptOutcomes == {"error", "raised"}
Failed(status) == status \in ExceptOutcomes

\* except Exception: conn.rollback(); return the error result.  Any statement of
\* the transaction may raise (constraint violation, malformed value, failed
\* connect); the connection, when there is one, is usable.
create_appointment_except(p) ==
    /\ pc[p] \in {"patient", "p_insert", "check", "unavailable", "insert", "block",
                 "commit"}
    /\ faults < MaxFaults
    /\ faults' = faults + 1
    /\ Rollback(p)
    /\ Return(p, "error", FALSE)

\* The connection is lost while a statement runs: the statement raises, the
\* conn.rollback() of the except branch raises in turn and the exception leaves
\* create_appointment; the server discards the transaction.  When it is lost
\* during conn.commit(), the server may have committed before the client
\* learnt of it: the rows are then persisted and the call raises all the same.
create_appointment_except_raises(p) ==
    /\ pc[p] \in {"patient", "p_insert", "check", "unavailable", "insert", "block",
                 "commit"}
    /\ faults < MaxFaults
    /\ faults' = faults + 1
    /\ Rollback(p) \/ (pc[p] = "commit" /\ Commit(p))
    /\ Return(p, "raised", FALSE)

\* ------------------------------------------------------------- cancel_appointment
cancel_appointment(p, appointment_id) ==
    /\ Begin(p, [op |-> "cancel", call |-> calls + 1, slot |-> 0, cpf |-> 0, doctor |-> 0,
                 clinic |-> <<>>, insurance |-> <<>>, appt |-> appointment_id])
    /\ pc' = [pc EXCEPT ![p] = "c_lookup"]

\* Mutant of cancel_not_found: no test of the SELECT's result; the two UPDATEs
\* match no row and the call commits and returns success.
cancel_not_found_succeeds(p) ==
    /\ Commit(p)
    /\ Return(p, "success", FALSE)

\* if not result: return the error "Agendamento não encontrado"; the connection
\* is closed with nothing written.
cancel_not_found(p) ==
    /\ Rollback(p)
    /\ Return(p, "notfound", FALSE)

\* SELECT slot_id FROM appointments WHERE id = %s; not found: return the error.
cancel_appointment_lookup(p) ==
    /\ pc[p] = "c_lookup"
    /\ IF ApptRows(req[p].appt) = {}
       THEN cancel_not_found(p)
       ELSE /\ \E a \in ApptRows(req[p].appt) : loc' = [loc EXCEPT ![p].slot_id = a.slot]
            /\ pc' = [pc EXCEPT ![p] = "c_update"]
            /\ UNCHANGED <<db, tx, req, result, calls, overlap, lastDone, solo>>
    /\ UNCHANGED faults

\* UPDATE appointments SET status = 'CANCELLED', cancelled_at = NOW(),
\* cancellation_reason = %s WHERE id = %s: whatever the row's status is.
cancel_appointment_update(p) ==
    /\ pc[p] = "c_update"
    /\ ~ApptLockedByOther(p, req[p].appt)
    /\ tx' = [tx EXCEPT ![p].upd = {req[p].appt}]
    /\ pc' = [pc EXCEPT ![p] = "c_free"]
    /\ UNCHANGED <<db, req, loc, result, calls, faults, overlap, lastDone, solo>>

\* Mutant of cancel_appointment_free: the statement that frees the slot writes nothing.
cancel_appointment_free_skipped(p) ==
    /\ pc[p] = "c_free"
    /\ pc' = [pc EXCEPT ![p] = "c_commit"]
    /\ UNCHANGED <<db, tx, req, loc, result, calls, faults, overlap, lastDone, solo>>

\* Mutant of cancel_appointment_free: SET is_available = NOT is_available.
cancel_appointment_free_toggles(p) ==
    /\ pc[p] = "c_free"
    /\ ~SlotLockedByOther(p, loc[p].slot_id)
    /\ tx' = [tx EXCEPT ![p].slot = {<<loc[p].slot_id, ~slotAvail[loc[p].slot_id]>>}]
    /\ pc' = [pc EXCEPT ![p] = "c_commit"]
    /\ UNCHANGED <<db, req, loc, result, calls, faults, overlap, lastDone, solo>>

\* What the UPDATE below does to the table: the row with the id, when there is
\* one, is AVAILABLE afterwards; no condition on the flag it had.
release(avail, slot_id) == [s \in DOMAIN avail |-> IF s = slot_id THEN TRUE ELSE avail[s]]

\* UPDATE available_slots SET is_available = TRUE WHERE id = %s.
cancel_appointment_free(p) ==
    /\ pc[p] = "c_free"
    /\ ~SlotLockedByOther(p, loc[p].slot_id)
    /\ tx' = [tx EXCEPT ![p].slot = {<<loc[p].slot_id, TRUE>>}]
    /\ pc' = [pc EXCEPT ![p] = "c_commit"]
    /\ UNCHANGED <<db, req, loc, result, calls, faults, overlap, lastDone, solo>>

\* conn.commit(); return success.
cancel_appointment_commit(p) ==
    /\ pc[p] = "c_commit"
    /\ Commit(p)
    /\ Return(p, "success", \E a \in ApptRows(req[p].appt) : a.status = "CONFIRMED")
    /\ UNCHANGED faults

\* Mutant of cancel_appointment_except: the statements run so far are kept
\* (autocommit left on), not rolled back.
cancel_appointment_except_keeps(p) ==
    /\ pc[p] \in {"c_lookup", "c_update", "c_free", "c_commit"}
    /\ faults < MaxFaults
    /\ faults' = faults + 1
    /\ Commit(p)
    /\ Return(p, "error", FALSE)

\* except Exception: conn.rollback(); return the error result.
cancel_appointment_except(p) ==
    /\ pc[p] \in {"c_lookup", "c_update", "c_free", "c_commit"}
    /\ faults < MaxFaults
    /\ faults' = faults + 1
    /\ Rollback(p)
    /\ Return(p, "error", FALSE)

\* The connection is lost while a statement of cancel_appointment runs: as in
\* create_appointment_except_raises, the commit may have been done.
cancel_appointment_except_raises(p) ==
    /\ pc[p] \in {"c_lookup", "c_update", "c_free", "c_commit"}
    /\ faults < MaxFaults
    /\ faults' = faults + 1
    /\ \/ Rollback(p) /\ Return(p, "raised", FALSE)
       \/ /\ pc[p] = "c_commit"
          /\ Commit(p)
          /\ Return(p, "raised", \E a \in ApptRows(req[p].appt) : a.status = "CONFIRMED")

\* ------------------------------------------------------------- search_specialty_availability
\* LOWER, a character at a time, by the database's LC_CTYPE, which src/ does
\* not fix: with "C" only A..Z are lowered; with a UTF-8 locale so is every
\* other letter, by LowerTable, whose entries are the character and its lower
\* case, for the characters that a string of this module can hold.
Locales == {"C", "UTF-8"}
LowerTable == {
    <<"À", "à">>, <<"Á", "á">>, <<"Â", "â">>, <<"Ã", "ã">>, <<"Ä", "ä">>, <<"Å", "å">>,
    <<"Æ", "æ">>, <<"Ç", "ç">>, <<"È", "è">>, <<"É", "é">>, <<"Ê", "ê">>, <<"Ë", "ë">>,
    <<"Ì", "ì">>, <<"Í", "í">>, <<"Î", "î">>, <<"Ï", "ï">>, <<"Ð", "ð">>, <<"Ñ", "ñ">>,
    <<"Ò", "ò">>, <<"Ó", "ó">>, <<"Ô", "ô">>, <<"Õ", "õ">>, <<"Ö", "ö">>, <<"Ø", "ø">>,
    <<"Ù", "ù">>, <<"Ú", "ú">>, <<"Û", "û">>, <<"Ü", "ü">>, <<"Ý", "ý">>, <<"Þ", "þ">>,
    <<"Ɓ", "U+0253">>, <<"Ƃ", "ƃ">>, <<"Ƅ", "ƅ">>, <<"Ɔ", "U+0254">>, <<"Ƈ", "ƈ">>,
    <<"Ɖ", "U+0256">>, <<"Ɗ", "U+0257">>, <<"Ƌ", "ƌ">>, <<"Ǝ", "ǝ">>, <<"Ə", "U+0259">>,
    <<"Ɛ", "U+025B">>, <<"Ƒ", "ƒ">>, <<"Ɠ", "U+0260">>, <<"Ɣ", "U+0263">>, <<"Ɩ", "U+0269">>,
    <<"Ɨ", "U+0268">>, <<"Ƙ", "ƙ">>, <<"Ɯ", "U+026F">>, <<"Ɲ", "U+0272">>, <<"Ɵ", "U+0275">>,
    <<"Ơ", "ơ">>, <<"Ƣ", "ƣ">>, <<"Ƥ", "ƥ">>, <<"Ʀ", "ʀ">>, <<"Ƨ", "ƨ">>, <<"Ʃ", "ʃ">>,
    <<"Ƭ", "ƭ">>, <<"Ʈ", "ʈ">>, <<"Ư", "ư">>, <<"Ʊ", "ʊ">>, <<"Ʋ", "ʋ">>, <<"Ƴ", "ƴ">>,
    <<"Ƶ", "ƶ">>, <<"Ʒ", "ʒ">>, <<"Ƹ", "ƹ">>, <<"Ƽ", "ƽ">>, <<"Ǆ", "ǆ">>, <<"ǅ", "ǆ">>,
    <<"Ǉ", "ǉ">>, <<"ǈ", "ǉ">>, <<"Ǌ", "ǌ">>, <<"ǋ", "ǌ">>, <<"Ǎ", "ǎ">>, <<"Ǐ", "ǐ">>,
    <<"Ǒ", "ǒ">>, <<"Ǔ", "ǔ">>, <<"Ǖ", "ǖ">>, <<"Ǘ", "ǘ">>, <<"Ǚ", "ǚ">>, <<"Ǜ", "ǜ">>,
    <<"Ǟ", "ǟ">>, <<"Ǡ", "ǡ">>, <<"Ǣ", "ǣ">>, <<"Ǥ", "ǥ">>, <<"Ǧ", "ǧ">>, <<"Ǩ", "ǩ">>,
    <<"Ǫ", "ǫ">>, <<"Ǭ", "ǭ">>, <<"Ǯ", "ǯ">>, <<"Ǳ", "ǳ">>, <<"ǲ", "ǳ">>, <<"Ǵ", "ǵ">>,
    <<"Ƕ", "ƕ">>, <<"Ƿ", "ƿ">>, <<"Ǹ", "ǹ">>, <<"Ǻ", "ǻ">>, <<"Ǽ", "ǽ">>, <<"Ǿ", "ǿ">>,
    <<"Ά", "ά">>, <<"Έ", "έ">>, <<"Ή", "ή">>, <<"Ί", "ί">>, <<"Ό", "ό">>, <<"Ύ", "ύ">>,
    <<"Ώ", "ώ">>, <<"Α", "α">>, <<"Β", "β">>, <<"Γ", "γ">>, <<"Δ", "δ">>, <<"Ε", "ε">>,
    <<"Ζ", "ζ">>, <<"Η", "η">>, <<"Θ", "θ">>, <<"Ι", "ι">>, <<"Κ", "κ">>, <<"Λ", "λ">>,
    <<"Μ", "μ">>, <<"Ν", "ν">>, <<"Ξ", "ξ">>, <<"Ο", "ο">>, <<"Π", "π">>, <<"Ρ", "ρ">>,
    <<"Σ", "σ">>, <<"Τ", "τ">>, <<"Υ", "υ">>, <<"Φ", "φ">>, <<"Χ", "χ">>, <<"Ψ", "ψ">>,
    <<"Ω", "ω">>, <<"Ϊ", "ϊ">>, <<"Ϋ", "ϋ">>, <<"Ϗ", "ϗ">>, <<"Ϙ", "ϙ">>, <<"Ϛ", "ϛ">>,
    <<"Ϝ", "ϝ">>, <<"Ϟ", "ϟ">>, <<"Ϡ", "ϡ">>, <<"Ϣ", "ϣ">>, <<"Ϥ", "ϥ">>, <<"Ϧ", "ϧ">>,
    <<"Ϩ", "ϩ">>, <<"Ϫ", "ϫ">>, <<"Ϭ", "ϭ">>, <<"Ϯ", "ϯ">>, <<"ϴ", "θ">>, <<"Ϸ", "ϸ">>,
    <<"Ϲ", "ϲ">>, <<"Ϻ", "ϻ">>, <<"Ͻ", "U+037B">>, <<"Ͼ", "U+037C">>, <<"Ͽ", "U+037D">>,
    <<"Ҁ", "ҁ">>, <<"Ҋ", "ҋ">>, <<"Ҍ", "ҍ">>, <<"Ҏ", "ҏ">>, <<"Ґ", "ґ">>, <<"Ғ", "ғ">>,
    <<"Ҕ", "ҕ">>, <<"Җ", "җ">>, <<"Ҙ", "ҙ">>, <<"Қ", "қ">>, <<"Ҝ", "ҝ">>, <<"Ҟ", "ҟ">>,
    <<"Ҡ", "ҡ">>, <<"Ң", "ң">>, <<"Ҥ", "ҥ">>, <<"Ҧ", "ҧ">>, <<"Ҩ", "ҩ">>, <<"Ҫ", "ҫ">>,
    <<"Ҭ", "ҭ">>, <<"Ү", "ү">>, <<"Ұ", "ұ">>, <<"Ҳ", "ҳ">>, <<"Ҵ", "ҵ">>, <<"Ҷ", "ҷ">>,
    <<"Ҹ", "ҹ">>, <<"Һ", "һ">>, <<"Ҽ", "ҽ">>, <<"Ҿ", "ҿ">>, <<"Ӏ", "ӏ">>, <<"Ӂ", "ӂ">>,
    <<"Ӄ", "ӄ">>, <<"Ӆ", "ӆ">>, <<"Ӈ", "ӈ">>, <<"Ӊ", "ӊ">>, <<"Ӌ", "ӌ">>, <<"Ӎ", "ӎ">>,
    <<"Ӑ", "ӑ">>, <<"Ӓ", "ӓ">>, <<"Ӕ", "ӕ">>, <<"Ӗ", "ӗ">>, <<"Ә", "ә">>, <<"Ӛ", "ӛ">>,
    <<"Ӝ", "ӝ">>, <<"Ӟ", "ӟ">>, <<"Ӡ", "ӡ">>, <<"Ӣ", "ӣ">>, <<"Ӥ", "ӥ">>, <<"Ӧ", "ӧ">>,
    <<"Ө", "ө">>, <<"Ӫ", "ӫ">>, <<"Ӭ", "ӭ">>, <<"Ӯ", "ӯ">>, <<"Ӱ", "ӱ">>, <<"Ӳ", "ӳ">>,
    <<"Ӵ", "ӵ">>, <<"Ӷ", "ӷ">>, <<"Ӹ", "ӹ">>, <<"Ӻ", "ӻ">>, <<"Ӽ", "ӽ">>, <<"Ӿ", "ӿ">>,
    <<"Ⴀ", "U+2D00">>, <<"Ⴁ", "U+2D01">>, <<"Ⴂ", "U+2D02">>, <<"Ⴃ", "U+2D03">>,
    <<"Ⴄ", "U+2D04">>, <<"Ⴅ", "U+2D05">>, <<"Ⴆ", "U+2D06">>, <<"Ⴇ", "U+2D07">>,
    <<"Ⴈ", "U+2D08">>, <<"Ⴉ", "U+2D09">>, <<"Ⴊ", "U+2D0A">>, <<"Ⴋ", "U+2D0B">>,
    <<"Ⴌ", "U+2D0C">>, <<"Ⴍ", "U+2D0D">>, <<"Ⴎ", "U+2D0E">>, <<"Ⴏ", "U+2D0F">>,
    <<"Ⴐ", "U+2D10">>, <<"Ⴑ", "U+2D11">>, <<"Ⴒ", "U+2D12">>, <<"Ⴓ", "U+2D13">>,
    <<"Ⴔ", "U+2D14">>, <<"Ⴕ", "U+2D15">>, <<"Ⴖ", "U+2D16">>, <<"Ⴗ", "U+2D17">>,
    <<"Ⴘ", "U+2D18">>, <<"Ⴙ", "U+2D19">>, <<"Ⴚ", "U+2D1A">>, <<"Ⴛ", "U+2D1B">>,
    <<"Ⴜ", "U+2D1C">>, <<"Ⴝ", "U+2D1D">>, <<"Ⴞ", "U+2D1E">>, <<"Ⴟ", "U+2D1F">>,
    <<"Ⴠ", "U+2D20">>, <<"Ⴡ", "U+2D21">>, <<"Ⴢ", "U+2D22">>, <<"Ⴣ", "U+2D23">>,
    <<"Ⴤ", "U+2D24">>, <<"Ⴥ", "U+2D25">>, <<"Ⴧ", "U+2D27">>, <<"Ⴭ", "U+2D2D">>,
    <<"Ꭰ", "U+AB70">>, <<"Ꭱ", "U+AB71">>, <<"Ꭲ", "U+AB72">>, <<"Ꭳ", "U+AB73">>,
    <<"Ꭴ", "U+AB74">>, <<"Ꭵ", "U+AB75">>, <<"Ꭶ", "U+AB76">>, <<"Ꭷ", "U+AB77">>,
    <<"Ꭸ", "U+AB78">>, <<"Ꭹ", "U+AB79">>, <<"Ꭺ", "U+AB7A">>, <<"Ꭻ", "U+AB7B">>,
    <<"Ꭼ", "U+AB7C">>, <<"Ꭽ", "U+AB7D">>, <<"Ꭾ", "U+AB7E">>, <<"Ꭿ", "U+AB7F">>, <<"Ꮀ", "ꮀ">>,
    <<"Ꮁ", "ꮁ">>, <<"Ꮂ", "ꮂ">>, <<"Ꮃ", "ꮃ">>, <<"Ꮄ", "ꮄ">>, <<"Ꮅ", "ꮅ">>, <<"Ꮆ", "ꮆ">>,
    <<"Ꮇ", "ꮇ">>, <<"Ꮈ", "ꮈ">>, <<"Ꮉ", "ꮉ">>, <<"Ꮊ", "ꮊ">>, <<"Ꮋ", "ꮋ">>, <<"Ꮌ", "ꮌ">>,
    <<"Ꮍ", "ꮍ">>, <<"Ꮎ", "ꮎ">>, <<"Ꮏ", "ꮏ">>, <<"Ꮐ", "ꮐ">>, <<"Ꮑ", "ꮑ">>, <<"Ꮒ", "ꮒ">>,
    <<"Ꮓ", "ꮓ">>, <<"Ꮔ", "ꮔ">>, <<"Ꮕ", "ꮕ">>, <<"Ꮖ", "ꮖ">>, <<"Ꮗ", "ꮗ">>, <<"Ꮘ", "ꮘ">>,
    <<"Ꮙ", "ꮙ">>, <<"Ꮚ", "ꮚ">>, <<"Ꮛ", "ꮛ">>, <<"Ꮜ", "ꮜ">>, <<"Ꮝ", "ꮝ">>, <<"Ꮞ", "ꮞ">>,
    <<"Ꮟ", "ꮟ">>, <<"Ꮠ", "ꮠ">>, <<"Ꮡ", "ꮡ">>, <<"Ꮢ", "ꮢ">>, <<"Ꮣ", "ꮣ">>, <<"Ꮤ", "ꮤ">>,
    <<"Ꮥ", "ꮥ">>, <<"Ꮦ", "ꮦ">>, <<"Ꮧ", "ꮧ">>, <<"Ꮨ", "ꮨ">>, <<"Ꮩ", "ꮩ">>, <<"Ꮪ", "ꮪ">>,
    <<"Ꮫ", "ꮫ">>, <<"Ꮬ", "ꮬ">>, <<"Ꮭ", "ꮭ">>, <<"Ꮮ", "ꮮ">>, <<"Ꮯ", "ꮯ">>, <<"Ꮰ", "ꮰ">>,
    <<"Ꮱ", "ꮱ">>, <<"Ꮲ", "ꮲ">>, <<"Ꮳ", "ꮳ">>, <<"Ꮴ", "ꮴ">>, <<"Ꮵ", "ꮵ">>, <<"Ꮶ", "ꮶ">>,
    <<"Ꮷ", "ꮷ">>, <<"Ꮸ", "ꮸ">>, <<"Ꮹ", "ꮹ">>, <<"Ꮺ", "ꮺ">>, <<"Ꮻ", "ꮻ">>, <<"Ꮼ", "ꮼ">>,
    <<"Ꮽ", "ꮽ">>, <<"Ꮾ", "ꮾ">>, <<"Ꮿ", "ꮿ">>, <<"Ᏸ", "ᏸ">>, <<"Ᏹ", "ᏹ">>, <<"Ᏺ", "ᏺ">>,
    <<"Ᏻ", "ᏻ">>, <<"Ᏼ", "ᏼ">>, <<"Ᏽ", "ᏽ">>, <<"Ა", "ა">>, <<"Ბ", "ბ">>, <<"Გ", "გ">>,
    <<"Დ", "დ">>, <<"Ე", "ე">>, <<"Ვ", "ვ">>, <<"Ზ", "ზ">>, <<"Თ", "თ">>, <<"Ი", "ი">>,
    <<"Კ", "კ">>, <<"Ლ", "ლ">>, <<"Მ", "მ">>, <<"Ნ", "ნ">>, <<"Ო", "ო">>, <<"Პ", "პ">>,
    <<"Ჟ", "ჟ">>, <<"Რ", "რ">>, <<"Ს", "ს">>, <<"Ტ", "ტ">>, <<"Უ", "უ">>, <<"Ფ", "ფ">>,
    <<"Ქ", "ქ">>, <<"Ღ", "ღ">>, <<"Ყ", "ყ">>, <<"Შ", "შ">>, <<"Ჩ", "ჩ">>, <<"Ც", "ც">>,
    <<"Ძ", "ძ">>, <<"Წ", "წ">>, <<"Ჭ", "ჭ">>, <<"Ხ", "ხ">>, <<"Ჯ", "ჯ">>, <<"Ჰ", "ჰ">>,
    <<"Ჱ", "ჱ">>, <<"Ჲ", "ჲ">>, <<"Ჳ", "ჳ">>, <<"Ჴ", "ჴ">>, <<"Ჵ", "ჵ">>, <<"Ჶ", "ჶ">>,
    <<"Ჷ", "ჷ">>, <<"Ჸ", "ჸ">>, <<"Ჹ", "ჹ">>, <<"Ჺ", "ჺ">>, <<"Ჽ", "ჽ">>, <<"Ჾ", "ჾ">>,
    <<"Ჿ", "ჿ">>, <<"Ẁ", "ẁ">>, <<"Ẃ", "ẃ">>, <<"Ẅ", "ẅ">>, <<"Ẇ", "ẇ">>, <<"Ẉ", "ẉ">>,
    <<"Ẋ", "ẋ">>, <<"Ẍ", "ẍ">>, <<"Ẏ", "ẏ">>, <<"Ẑ", "ẑ">>, <<"Ẓ", "ẓ">>, <<"Ẕ", "ẕ">>,
    <<"ẞ", "ß">>, <<"Ạ", "ạ">>, <<"Ả", "ả">>, <<"Ấ", "ấ">>, <<"Ầ", "ầ">>, <<"Ẩ", "ẩ">>,
    <<"Ẫ", "ẫ">>, <<"Ậ", "ậ">>, <<"Ắ", "ắ">>, <<"Ằ", "ằ">>, <<"Ẳ", "ẳ">>, <<"Ẵ", "ẵ">>,
    <<"Ặ", "ặ">>, <<"Ẹ", "ẹ">>, <<"Ẻ", "ẻ">>, <<"Ẽ", "ẽ">>, <<"Ế", "ế">>, <<"Ề", "ề">>,
    <<"Ể", "ể">>, <<"Ễ", "ễ">>, <<"Ệ", "ệ">>, <<"Ỉ", "ỉ">>, <<"Ị", "ị">>, <<"Ọ", "ọ">>,
    <<"Ỏ", "ỏ">>, <<"Ố", "ố">>, <<"Ồ", "ồ">>, <<"Ổ", "ổ">>, <<"Ỗ", "ỗ">>, <<"Ộ", "ộ">>,
    <<"Ớ", "ớ">>, <<"Ờ", "ờ">>, <<"Ở", "ở">>, <<"Ỡ", "ỡ">>, <<"Ợ", "ợ">>, <<"Ụ", "ụ">>,
    <<"Ủ", "ủ">>, <<"Ứ", "ứ">>, <<"Ừ", "ừ">>, <<"Ử", "ử">>, <<"Ữ", "ữ">>, <<"Ự", "ự">>,
    <<"Ỳ", "ỳ">>, <<"Ỵ", "ỵ">>, <<"Ỷ", "ỷ">>, <<"Ỹ", "ỹ">>, <<"Ỻ", "ỻ">>, <<"Ỽ", "ỽ">>,
    <<"Ỿ", "ỿ">>, <<"ᾈ", "ᾀ">>, <<"ᾉ", "ᾁ">>, <<"ᾊ", "ᾂ">>, <<"ᾋ", "ᾃ">>, <<"ᾌ", "ᾄ">>,
    <<"ᾍ", "ᾅ">>, <<"ᾎ", "ᾆ">>, <<"ᾏ", "ᾇ">>, <<"ᾘ", "ᾐ">>, <<"ᾙ", "ᾑ">>, <<"ᾚ", "ᾒ">>,
    <<"ᾛ", "ᾓ">>, <<"ᾜ", "ᾔ">>, <<"ᾝ", "ᾕ">>, <<"ᾞ", "ᾖ">>, <<"ᾟ", "ᾗ">>, <<"ᾨ", "ᾠ">>,
    <<"ᾩ", "ᾡ">>, <<"ᾪ", "ᾢ">>, <<"ᾫ", "ᾣ">>, <<"ᾬ", "ᾤ">>, <<"ᾭ", "ᾥ">>, <<"ᾮ", "ᾦ">>,
    <<"ᾯ", "ᾧ">>, <<"Ᾰ", "ᾰ">>, <<"Ᾱ", "ᾱ">>, <<"Ὰ", "U+1F70">>, <<"Ά", "U+1F71">>,
    <<"ᾼ", "ᾳ">>, <<"Ὲ", "U+1F72">>, <<"Έ", "U+1F73">>, <<"Ὴ", "U+1F74">>, <<"Ή", "U+1F75">>,
    <<"ῌ", "ῃ">>, <<"Ῐ", "ῐ">>, <<"Ῑ", "ῑ">>, <<"Ὶ", "U+1F76">>, <<"Ί", "U+1F77">>,
    <<"Ῠ", "ῠ">>, <<"Ῡ", "ῡ">>, <<"Ὺ", "U+1F7A">>, <<"Ύ", "U+1F7B">>, <<"Ῥ", "ῥ">>,
    <<"Ὸ", "U+1F78">>, <<"Ό", "U+1F79">>, <<"Ὼ", "U+1F7C">>, <<"Ώ", "U+1F7D">>, <<"ῼ", "ῳ">>,
    <<"Ↄ", "ↄ">>, <<"Ⓐ", "ⓐ">>, <<"Ⓑ", "ⓑ">>, <<"Ⓒ", "ⓒ">>, <<"Ⓓ", "ⓓ">>, <<"Ⓔ", "ⓔ">>,
    <<"Ⓕ", "ⓕ">>, <<"Ⓖ", "ⓖ">>, <<"Ⓗ", "ⓗ">>, <<"Ⓘ", "ⓘ">>, <<"Ⓙ", "ⓙ">>, <<"Ⓚ", "ⓚ">>,
    <<"Ⓛ", "ⓛ">>, <<"Ⓜ", "ⓜ">>, <<"Ⓝ", "ⓝ">>, <<"Ⓞ", "ⓞ">>, <<"Ⓟ", "ⓟ">>, <<"Ⓠ", "ⓠ">>,
    <<"Ⓡ", "ⓡ">>, <<"Ⓢ", "ⓢ">>, <<"Ⓣ", "ⓣ">>, <<"Ⓤ", "ⓤ">>, <<"Ⓥ", "ⓥ">>, <<"Ⓦ", "ⓦ">>,
    <<"Ⓧ", "ⓧ">>, <<"Ⓨ", "ⓨ">>, <<"Ⓩ", "ⓩ">>, <<"Ⲁ", "ⲁ">>, <<"Ⲃ", "ⲃ">>, <<"Ⲅ", "ⲅ">>,
    <<"Ⲇ", "ⲇ">>, <<"Ⲉ", "ⲉ">>, <<"Ⲋ", "ⲋ">>, <<"Ⲍ", "ⲍ">>, <<"Ⲏ", "ⲏ">>, <<"Ⲑ", "ⲑ">>,
    <<"Ⲓ", "ⲓ">>, <<"Ⲕ", "ⲕ">>, <<"Ⲗ", "ⲗ">>, <<"Ⲙ", "ⲙ">>, <<"Ⲛ", "ⲛ">>, <<"Ⲝ", "ⲝ">>,
    <<"Ⲟ", "ⲟ">>, <<"Ⲡ", "ⲡ">>, <<"Ⲣ", "ⲣ">>, <<"Ⲥ", "ⲥ">>, <<"Ⲧ", "ⲧ">>, <<"Ⲩ", "ⲩ">>,
    <<"Ⲫ", "ⲫ">>, <<"Ⲭ", "ⲭ">>, <<"Ⲯ", "ⲯ">>, <<"Ⲱ", "ⲱ">>, <<"Ⲳ", "ⲳ">>, <<"Ⲵ", "ⲵ">>,
    <<"Ⲷ", "ⲷ">>, <<"Ⲹ", "ⲹ">>, <<"Ⲻ", "ⲻ">>, <<"Ⲽ", "ⲽ">>, <<"Ⲿ", "ⲿ">>, <<"Ⳁ", "ⳁ">>,
    <<"Ⳃ", "ⳃ">>, <<"Ⳅ", "ⳅ">>, <<"Ⳇ", "ⳇ">>, <<"Ⳉ", "ⳉ">>, <<"Ⳋ", "ⳋ">>, <<"Ⳍ", "ⳍ">>,
    <<"Ⳏ", "ⳏ">>, <<"Ⳑ", "ⳑ">>, <<"Ⳓ", "ⳓ">>, <<"Ⳕ", "ⳕ">>, <<"Ⳗ", "ⳗ">>, <<"Ⳙ", "ⳙ">>,
    <<"Ⳛ", "ⳛ">>, <<"Ⳝ", "ⳝ">>, <<"Ⳟ", "ⳟ">>, <<"Ⳡ", "ⳡ">>, <<"Ⳣ", "ⳣ">>, <<"Ⳬ", "ⳬ">>,
    <<"Ⳮ", "ⳮ">>, <<"Ⳳ", "ⳳ">>, <<"Ꚁ", "ꚁ">>, <<"Ꚃ", "ꚃ">>, <<"Ꚅ", "ꚅ">>, <<"Ꚇ", "ꚇ">>,
    <<"Ꚉ", "ꚉ">>, <<"Ꚋ", "ꚋ">>, <<"Ꚍ", "ꚍ">>, <<"Ꚏ", "ꚏ">>, <<"Ꚑ", "ꚑ">>, <<"Ꚓ", "ꚓ">>,
    <<"Ꚕ", "ꚕ">>, <<"Ꚗ", "ꚗ">>, <<"Ꚙ", "ꚙ">>, <<"Ꚛ", "ꚛ">>, <<"Ꞁ", "ꞁ">>, <<"Ꞃ", "ꞃ">>,
    <<"Ꞅ", "ꞅ">>, <<"Ꞇ", "ꞇ">>, <<"Ꞌ", "ꞌ">>, <<"Ɥ", "U+0265">>, <<"Ꞑ", "ꞑ">>, <<"Ꞓ", "ꞓ">>,
    <<"Ꞗ", "ꞗ">>, <<"Ꞙ", "ꞙ">>, <<"Ꞛ", "ꞛ">>, <<"Ꞝ", "ꞝ">>, <<"Ꞟ", "ꞟ">>, <<"Ꞡ", "ꞡ">>,
    <<"Ꞣ", "ꞣ">>, <<"Ꞥ", "ꞥ">>, <<"Ꞧ", "ꞧ">>, <<"Ꞩ", "ꞩ">>, <<"Ɦ", "U+0266">>,
    <<"Ɜ", "U+025C">>, <<"Ɡ", "U+0261">>, <<"Ɬ", "U+026C">>, <<"Ɪ", "U+026A">>, <<"Ʞ", "ʞ">>,
    <<"Ʇ", "ʇ">>, <<"Ʝ", "ʝ">>, <<"Ꭓ", "U+AB53">>, <<"Ꞵ", "ꞵ">>, <<"Ꞷ", "ꞷ">>, <<"Ꞹ", "ꞹ">>,
    <<"Ꞻ", "ꞻ">>, <<"Ꞽ", "ꞽ">>, <<"Ꞿ", "ꞿ">>, <<"Ꟁ", "ꟁ">>, <<"Ꟃ", "ꟃ">>, <<"Ꞔ", "ꞔ">>,
    <<"Ʂ", "ʂ">>, <<"Ᶎ", "ᶎ">>, <<"Ꟈ", "ꟈ">>, <<"Ꟊ", "ꟊ">>, <<"Ꟑ", "ꟑ">>, <<"Ꟗ", "ꟗ">>,
    <<"Ꟙ", "ꟙ">>, <<"Ꟶ", "ꟶ">>}

LowerChar(c, lc_ctype) ==
    IF \E i \in 1..Len(AsciiUpper) : AsciiUpper[i] = c
    THEN AsciiLower[CHOOSE i \in 1..Len(AsciiUpper) : AsciiUpper[i] = c]
    ELSE IF lc_ctype = "UTF-8" /\ \E e \in LowerTable : e[1] = c
         THEN (CHOOSE e \in LowerTable : e[1] = c)[2]
         ELSE c
Lower(s, lc_ctype) == [i \in 1..Len(s) |-> LowerChar(s[i], lc_ctype)]

\* s LIKE pat: '%' stands for any run of characters, '_' for any one character,
\* and a backslash makes the character after it stand for itself.  A pattern
\* that ends in a lone backslash matches nothing; the query's pattern ends in
\* '%', so it never does.
RECURSIVE LikeMatch(_, _)
LikeMatch(s, pat) ==
    IF pat = <<>> THEN s = <<>>
    ELSE IF Head(pat) = "\\"
         THEN /\ Len(pat) > 1 /\ s # <<>>
              /\ pat[2] = Head(s)
              /\ LikeMatch(Tail(s), Tail(Tail(pat)))
    ELSE IF Head(pat) = "%"
         THEN LikeMatch(s, Tail(pat)) \/ (s # <<>> /\ LikeMatch(Tail(s), pat))
         ELSE /\ s # <<>>
              /\ Head(pat) = "_" \/ Head(pat) = Head(s)
              /\ LikeMatch(Tail(s), Tail(pat))

\* The catalogue: every slot is of one doctor, whose specialty is "Cardíaca"; slot s
\* is dated NumSlots - s days after today, at hour s, so the later ids come
\* first; one more row of available_slots, never booked here, is dated
\* yesterday and available.
Today == 0
PageSize == 20
Specialty == <<"C", "a", "r", "d", "í", "a", "c", "a">>
OldSlot == NumSlots + 2
SearchRows == Slots \cup {OldSlot}
SlotDate(s) == IF s = OldSlot THEN Today - 1 ELSE Today + (NumSlots - s)
SlotTime(s) == s
IsAvailable(s) == IF s \in Slots THEN slotAvail[s] ELSE TRUE
SearchTexts == {<<"a", "r">>, <<"C", "A", "R", "D">>, <<"a", "r", "x">>, <<"c", "_", "r">>,
                <<" ", "a">>, <<"\t", "a">>, <<"a", "\\", "r">>, <<"C", "\\", "A", "R", "D">>,
                <<"a", "r", "d", "\\">>, <<"d", "í", "a">>, <<"D", "Í", "A">>,
                <<"C", "A", "R", "D", "Í", "A", "C", "A">>}

\* WHERE LOWER(TRIM(d.specialty)) LIKE LOWER(TRIM('%' || text || '%')).
SpecialtyMatches ==
    [lc_ctype \in Locales |->
        [text \in SearchTexts |->
            LikeMatch(Lower(Trim(Specialty), lc_ctype),
                      Lower(Trim(<<"%">> \o text \o <<"%">>), lc_ctype))]]

\* ORDER BY a.date ASC, a.time ASC.
RECURSIVE OrderByDateTime(_)
OrderByDateTime(rows) ==
    IF rows = {} THEN <<>>
    ELSE LET first == CHOOSE s \in rows : \A t \in rows :
                          \/ SlotDate(s) < SlotDate(t)
                          \/ SlotDate(s) = SlotDate(t) /\ SlotTime(s) < SlotTime(t)
                          \/ s = t
         IN <<first>> \o OrderByDateTime(rows \ {first})

\* The slot ids of the rows the query returns: a read of the committed rows,
\* nothing is written.  When get_db_connection or the query raises, the except
\* branch returns the empty list.
search_specialty_availability(specialty, lc_ctype, raises) ==
    LET rows == OrderByDateTime({s \in SearchRows : /\ SpecialtyMatches[lc_ctype][specialty]
                                                    /\ IsAvailable(s)
                                                    /\ SlotDate(s) >= Today})
    IN IF raises THEN <<>>
       ELSE SubSeq(rows, 1, IF Len(rows) < PageSize THEN Len(rows) ELSE PageSize)

\* ------------------------------------------------------------- get_appointment_by_id
\* int(text): outer whitespace ignored, an optional sign, then decimal digits
\* with single underscores allowed between them; anything else raises
\* ValueError.
IntBody(text) ==
    LET t == StripOf(text, IntSpaceChars)
    IN IF t # <<>> /\ t[1] \in {"+", "-"} THEN Tail(t) ELSE t
IsIntText(text) ==
    LET body == IntBody(text) IN
    /\ body # <<>>
    /\ \A i \in 1..Len(body) : IsDecimalChar(body[i]) \/ body[i] = "_"
    /\ body[1] # "_" /\ body[Len(body)] # "_"
    /\ \A i \in 1..(Len(body) - 1) : ~(body[i] = "_" /\ body[i + 1] = "_")
IntOf(text) ==
    LET t == StripOf(text, IntSpaceChars)
        n == ToNat(Replace(IntBody(text), "_"))
    IN IF t[1] = "-" THEN 0 - n ELSE n

None == [found |-> FALSE]

\* SELECT ... FROM appointments a JOIN patients p ... JOIN doctors d ... JOIN
\* clinics c ... WHERE a.id = %s, then every id of the row through int(); an
\* exception, the ValueError of int() included, is caught and None returned:
\* so it is when get_db_connection or the query raises.  A read of the
\* committed rows: nothing is written.
get_appointment_by_id(appointment_id, raises) ==
    LET rows == {<<a, r>> \in appts \X patients : a.id = appointment_id /\ r.id = a.patient} IN
    IF raises \/ rows = {} THEN None
    ELSE LET row == CHOOSE x \in rows : TRUE IN
         IF IsIntText(row[1].clinic)
         THEN [found |-> TRUE, id |-> row[1].id, patient_id |-> row[2].id,
               patient_cpf |-> row[2].cpf, clinic_id |-> IntOf(row[1].clinic),
               slot_id |-> row[1].slot, status |-> row[1].status]
         ELSE None

\* ------------------------------------------------------------- specification
Init ==
    /\ slotAvail = [s \in Slots |-> TRUE]
    /\ appts = {}
    /\ patients = {}
    /\ pc = [p \in Procs |-> "idle"]
    /\ req = [p \in Procs |-> NoReq]
    /\ loc = [p \in Procs |-> NoLoc]
    /\ tx = [p \in Procs |-> NoTx]
    /\ result = [p \in Procs |-> "none"]
    /\ calls = 0
    /\ faults = 0
    /\ overlap = [p \in Procs |-> {}]
    /\ lastDone = NoCall
    /\ solo = [p \in Procs |-> FALSE]

\* ------------------------------------------------------------- inputs
\* Sessions, slots and identity keys are interchangeable, so a call runs on the
\* first free session (Begin) and names a slot or key already in use, or the first
\* unused one; cancel names a committed appointment, the appointment a book
\* call in progress inserts (its id may be known before the call returns), or
\* 0, which no row has.
KnownCpfs == {r.cpf : r \in patients} \cup {req[p].cpf : p \in Procs} \cup UNION {{r.cpf : r \in tx[p].pat} : p \in Procs}
CpfInputs == (KnownCpfs \cap Cpfs) \cup {k \in Cpfs \ KnownCpfs : \A j \in Cpfs \ KnownCpfs : k <= j}
KnownSlots == {a.slot : a \in appts} \cup {s \in Slots : ~slotAvail[s]} \cup {req[p].slot : p \in Procs} \cup {loc[p].slot_id : p \in Procs}
SlotInputs == (KnownSlots \cap Slots) \cup {s \in Slots \ KnownSlots : \A j \in Slots \ KnownSlots : s <= j} \cup {NoSlot}
ApptInputs == {a.id : a \in appts}
              \cup {req[p].call : p \in {q \in Procs : Active(q) /\ req[q].op = "book"}}
              \cup {0}

\* The requests are of four kinds (CheckEach): "insurance", those that give
\* an insurance type; "blank", the accepted ones whose clinic reference is of
\* blanks only; "foreign", the accepted ones that name a doctor or a clinic
\* other than the owners of their slot; "plain", the requests of Spec.
\* A well-formed request names a key and a slot as above.
\* Two requests that schedule_appointment treats alike, both rejected or both
\* handed to create_appointment with the same arguments, take the same step:
\* a call is drawn from the first request of each such class.
Alike(i, j) ==
    /\ Checked[i].valid = Checked[j].valid
    /\ Checked[i].kind = Checked[j].kind
    /\ Checked[i].valid => /\ Checked[i].cpf = Checked[j].cpf
                           /\ Checked[i].doctor_id = Checked[j].doctor_id
                           /\ Checked[i].slot_id = Checked[j].slot_id
                           /\ Checked[i].clinic_id = Checked[j].clinic_id
                           /\ Checked[i].insurance_type = Checked[j].insurance_type
FirstOfClass == {i \in 1..Len(Requests) : \A j \in 1..(i - 1) : ~Alike(i, j)}

BookInputsOf(kind) ==
    LET cpfs == CpfInputs
        slots == SlotInputs
    IN {i \in FirstOfClass :
           /\ Checked[i].kind = kind
           /\ Checked[i].valid => (Checked[i].cpf \in cpfs /\ Checked[i].slot_id \in slots)}
BookInputs == BookInputsOf("plain")
ForeignInputs == BookInputsOf("foreign")
InsuranceInputs == BookInputsOf("insurance")

\* The accepted requests whose key text is none of the keys' texts.
OddKeyInputs ==
    LET slots == SlotInputs
    IN {i \in FirstOfClass :
           /\ Checked[i].kind = "plain"
           /\ Checked[i].valid /\ Checked[i].cpf \notin Cpfs
           /\ Checked[i].slot_id \in slots}

\* The accepted requests whose clinic reference is of blanks only, and those
\* whose key has a character that str.isdigit() accepts and that is no decimal
\* digit.
BlankInputs == BookInputsOf("blank")
OtherDigitInputs ==
    {i \in OddKeyInputs :
        \E n \in 1..Len(Checked[i].cpf_text) : Checked[i].cpf_text[n] \in OtherDigitChars}

Next ==
    \/ \E p \in Procs, i \in BookInputs : schedule_appointment(p, i)
    \/ \E p \in Procs : get_or_create_patient(p)
    \/ \E p \in Procs : get_or_create_patient_insert(p)
    \/ \E p \in Procs : get_or_create_patient_conflict(p)
    \/ \E p \in Procs : create_appointment_check(p)
    \/ \E p \in Procs : create_appointment_unavailable(p)
    \/ \E p \in Procs : insert_appointment(p)
    \/ \E p \in Procs : block_slot(p)
    \/ \E p \in Procs : create_appointment_commit(p)
    \/ \E p \in Procs : create_appointment_except(p)
    \/ \E p \in Procs, a \in ApptInputs : cancel_appointment(p, a)
    \/ \E p \in Procs : cancel_appointment_lookup(p)
    \/ \E p \in Procs : cancel_appointment_update(p)
    \/ \E p \in Procs : cancel_appointment_free(p)
    \/ \E p \in Procs : cancel_appointment_commit(p)
    \/ \E p \in Procs : cancel_appointment_except(p)

Spec == Init /\ [][Next]_vars

\* Spec injects the failures of a statement on a usable connection; LossSpec
\* injects the loss of the connection as well.
NextLoss ==
    \/ Next
    \/ \E p \in Procs : create_appointment_except_raises(p)
    \/ \E p \in Procs : cancel_appointment_except_raises(p)

LossSpec == Init /\ [][NextLoss]_vars

\* CommitLossSpec: the calls of Spec with one storage failure, the connection
\* lost during the conn.commit() of create_appointment: the one failure after
\* which a patient row may be persisted.
NextCommitLoss ==
    \/ \E p \in Procs, i \in BookInputs : schedule_appointment(p, i)
    \/ \E p \in Procs : get_or_create_patient(p)
    \/ \E p \in Procs : get_or_create_patient_insert(p)
    \/ \E p \in Procs : get_or_create_patient_conflict(p)
    \/ \E p \in Procs : create_appointment_check(p)
    \/ \E p \in Procs : create_appointment_unavailable(p)
    \/ \E p \in Procs : insert_appointment(p)
    \/ \E p \in Procs : block_slot(p)
    \/ \E p \in Procs : create_appointment_commit(p)
    \/ \E p \in Procs : pc[p] = "commit" /\ create_appointment_except_raises(p)
    \/ \E p \in Procs, a \in ApptInputs : cancel_appointment(p, a)
    \/ \E p \in Procs : cancel_appointment_lookup(p)
    \/ \E p \in Procs : cancel_appointment_update(p)
    \/ \E p \in Procs : cancel_appointment_free(p)
    \/ \E p \in Procs : cancel_appointment_commit(p)

CommitLossSpec == Init /\ [][NextCommitLoss]_vars

\* InsuranceSpec: the calls of Spec and the requests that give an insurance
\* type, with no storage failure injected.
NextInsurance ==
    \/ \E p \in Procs, i \in BookInputs : schedule_appointment(p, i)
    \/ \E p \in Procs, i \in InsuranceInputs : schedule_appointment(p, i)
    \/ \E p \in Procs : get_or_create_patient(p)
    \/ \E p \in Procs : get_or_create_patient_insert(p)
    \/ \E p \in Procs : get_or_create_patient_conflict(p)
    \/ \E p \in Procs : create_appointment_check(p)
    \/ \E p \in Procs : create_appointment_unavailable(p)
    \/ \E p \in Procs : insert_appointment(p)
    \/ \E p \in Procs : block_slot(p)
    \/ \E p \in Procs : create_appointment_commit(p)
    \/ \E p \in Procs, a \in ApptInputs : cancel_appointment(p, a)
    \/ \E p \in Procs : cancel_appointment_lookup(p)
    \/ \E p \in Procs : cancel_appointment_update(p)
    \/ \E p \in Procs : cancel_appointment_free(p)
    \/ \E p \in Procs : cancel_appointment_commit(p)

InsuranceSpec == Init /\ [][NextInsurance]_vars

\* KeySpec adds the accepted requests whose key text is none of the keys' texts.
NextKey ==
    \/ Next
    \/ \E p \in Procs, i \in OddKeyInputs : schedule_appointment(p, i)

KeySpec == Init /\ [][NextKey]_vars

\* LenientSpec adds the requests that schedule_appointment hands to
\* create_appointment with a key of other digits than 0-9 or with a clinic
\* reference of blanks, and the INSERT that refuses a NULL clinic_id.
NextLenient ==
    \/ Next
    \/ \E p \in Procs, i \in OtherDigitInputs : schedule_appointment(p, i)
    \/ \E p \in Procs, i \in BlankInputs : schedule_appointment(p, i)
    \/ \E p \in Procs : insert_appointment_null_clinic(p)

LenientSpec == Init /\ [][NextLenient]_vars

\* OwnerSpec adds the requests that name a doctor or clinic other than the
\* slot's owners.
NextOwner ==
    \/ Next
    \/ \E p \in Procs, i \in ForeignInputs : schedule_appointment(p, i)

OwnerSpec == Init /\ [][NextOwner]_vars

\* The next statement of session p's call, storage failures apart.
Step(p) ==
    \/ get_or_create_patient(p)
    \/ get_or_create_patient_insert(p)
    \/ get_or_create_patient_conflict(p)
    \/ create_appointment_check(p)
    \/ create_appointment_unavailable(p)
    \/ insert_appointment(p)
    \/ block_slot(p)
    \/ create_appointment_commit(p)
    \/ cancel_appointment_lookup(p)
    \/ cancel_appointment_update(p)
    \/ cancel_appointment_free(p)
    \/ cancel_appointment_commit(p)

\* Every call runs on its own thread and connection: a statement that is not
\* waiting for a row lock is run by the interpreter and the server.
FairSpec == Spec /\ \A p \in Procs : WF_vars(Step(p))

\* ------------------------------------------------------------- properties
BookCall(p) == req[p].op = "book"
CancelCall(p) == req[p].op = "cancel"
Concurrent(p, q) == p # q /\ q \in overlap[p] /\ p \in overlap[q]

\* The step is the return of session p's call.
Returns(p) == Active(p) /\ pc'[p] = "done"

\* C1 (P1, no double-booking): of the book calls that ran concurrently against
\* one slot, one returns success and creates a CONFIRMED appointment; every
\* other one returns the slot-unavailable error (the storage error when a
\* failure was injected into it) and creates no appointment.
P1_NoDoubleBooking ==
    \A p, q \in Procs :
        (/\ Concurrent(p, q)
         /\ pc[p] = "done" /\ pc[q] = "done"
         /\ BookCall(p) /\ BookCall(q)
         /\ req[p].slot = req[q].slot
         /\ result[p] = "success")
        => /\ result[q] \in {"unavailable"} \cup ExceptOutcomes
           /\ ApptRows(req[q].call) = {}

\* C2 (invariant I1): in every committed state each slot is referenced by at
\* most one CONFIRMED appointment, and the slot is HELD (is_available false)
\* exactly when there is one.
I1_HeldIffOneConfirmed ==
    \A s \in Slots :
        /\ Cardinality(ConfirmedOn(appts, s)) <= 1
        /\ ~slotAvail[s] <=> ConfirmedOn(appts, s) # {}

\* C3 (the claim is indivisible): a book call that has read its slot as
\* AVAILABLE and has not yet ended holds the claim of that slot; no two open
\* calls hold the claim of one slot, and between the read and the call's own
\* write of HELD the committed flag stays AVAILABLE.
Claimed(p) == BookCall(p) /\ pc[p] \in {"insert", "block", "commit"}
ClaimIndivisible ==
    /\ \A p, q \in Procs : (p # q /\ Claimed(p) /\ Claimed(q)) => req[p].slot # req[q].slot
    /\ \A p \in Procs : (BookCall(p) /\ pc[p] \in {"insert", "block"}) => slotAvail[req[p].slot]

\* C4 (P2, atomicity): when a book call fails after it found its slot available
\* (at the appointment insert, the slot block or the commit), then as the call
\* returns the slot's flag is AVAILABLE and neither an appointment row nor a
\* patient row of this call is in the committed tables.
P2_FailedBookLeavesSlotAvailable ==
    [][\A p \in Procs :
          (Claimed(p) /\ Returns(p) /\ result'[p] # "success")
          => /\ slotAvail'[req[p].slot]
             /\ {a \in appts' : a.id = req[p].call} = {}
             /\ {r \in patients' : r.id = req[p].call} = {}]_vars

\* C5 (P4, cancel idempotent): a cancel call on an appointment that was already
\* CANCELLED when the call began (no other call ran beside it) and that meets
\* no storage failure returns the AlreadyCancelled error, and the status stays
\* CANCELLED.
P4_SecondCancelReportsAlreadyCancelled ==
    [][\A p \in Procs :
          (/\ CancelCall(p) /\ Returns(p) /\ overlap[p] = {}
           /\ \E a \in ApptRows(req[p].appt) : a.status = "CANCELLED"
           /\ ~Failed(result'[p]))
          => /\ result'[p] = "already_cancelled"
             /\ \A a \in appts' : a.id = req[p].appt => a.status = "CANCELLED"]_vars

\* C6 (cancel of a CANCELLED appointment is a no-op): no step of a cancel call
\* whose appointment was already CANCELLED when the call began (no other call
\* ran beside it) changes an appointment row (status, cancellation timestamp
\* and reason) or a slot's availability flag.
CancelOfCancelledMutatesNothing ==
    [][\A p \in Procs :
          (/\ CancelCall(p) /\ Active(p) /\ pc'[p] # pc[p] /\ overlap[p] = {}
           /\ \E a \in ApptRows(req[p].appt) : a.status = "CANCELLED")
          => (appts' = appts /\ slotAvail' = slotAvail)]_vars

\* C7 (slot unavailable persists nothing): when a book call reads its slot and
\* the slot is HELD or has no row, the read writes nothing and the call's next
\* step is its return, with the slot-unavailable error unless a storage
\* failure was injected; that step writes nothing to the committed tables,
\* and as the call returns no appointment and no patient row of the call is
\* committed: the patient row the call had inserted is not kept.
UnavailableBookPersistsNothing ==
    [][\A p \in Procs :
          /\ (pc[p] = "check" /\ pc'[p] # "check" /\ ~check_slot_available(req[p].slot))
             => /\ db' = db
                /\ pc'[p] \in {"unavailable", "done"}
                /\ faults' = faults => (pc'[p] = "unavailable" /\ tx' = tx)
          /\ (pc[p] = "unavailable" /\ pc'[p] # "unavailable")
             => /\ pc'[p] = "done"
                /\ faults' = faults => result'[p] = "unavailable"
                /\ db' = db /\ tx'[p] = NoTx
                /\ \A a \in appts' : a.id # req[p].call
                /\ \A r \in patients' : r.id # req[p].call]_vars

\* C7 witness: the last call returned slot-unavailable for a HELD slot and
\* discarded the patient row it had inserted.
UnavailableBookWitness ==
    /\ lastDone.op = "book" /\ lastDone.result = "unavailable" /\ lastDone.inserted
    /\ lastDone.slot \in Slots /\ ~slotAvail[lastDone.slot]
    /\ \E p \in Procs : pc[p] = "done" /\ BookCall(p) /\ result[p] = "unavailable"

\* C8 (book postcondition): as a book call returns success, exactly one
\* CONFIRMED appointment references its slot, the one the call inserted, and
\* the slot is HELD; as it returns a failure, no appointment of the call is
\* committed and the call has not changed the slot's flag.
BookPostcondition ==
    [][\A p \in Procs :
          (BookCall(p) /\ Returns(p))
          => IF result'[p] = "success"
             THEN /\ ConfirmedOn(appts', req[p].slot) = {a \in appts' : a.id = req[p].call}
                  /\ {a \in appts' : a.id = req[p].call} # {}
                  /\ ~slotAvail'[req[p].slot]
             ELSE /\ {a \in appts' : a.id = req[p].call} = {}
                  /\ slotAvail' = slotAvail]_vars

\* C9 (P3, cancel reverses the claim): a book call on the slot of a CONFIRMED
\* appointment, issued right after the successful cancel of that appointment
\* with no other call running or begun in between, finds the slot AVAILABLE,
\* is not made to wait for the slot's row, and unless a storage failure is
\* injected returns success with the slot HELD and its own CONFIRMED
\* appointment on it.
P3_BookAfterCancelSucceeds ==
    \A p \in Procs :
        solo[p] =>
            /\ pc[p] \in {"patient", "p_insert", "check"} => slotAvail[req[p].slot]
            /\ pc[p] # "unavailable"
            /\ pc[p] = "block" => ~SlotLockedByOther(p, req[p].slot)
            /\ (pc[p] = "done" /\ ~Failed(result[p])) =>
                   /\ result[p] = "success"
                   /\ ~slotAvail[req[p].slot]
                   /\ \E a \in ConfirmedOn(appts, req[p].slot) : a.id = req[p].call

\* C9 witness: such a book call has returned success.
P3_Witness == \E p \in Procs : solo[p] /\ pc[p] = "done" /\ result[p] = "success"

\* C10 (cancel is atomic): a step of a cancel call changes the committed
\* tables only as the call returns success, and then the appointment is
\* CANCELLED with this call's timestamp and reason and its slot is AVAILABLE,
\* both in the same step; a cancel call that returns a failure leaves the
\* committed tables as they were.
CancelAtomic ==
    [][\A p \in Procs :
          (CancelCall(p) /\ Active(p) /\ pc'[p] # pc[p])
          => LET applied == /\ \E a \in appts' : /\ a.id = req[p].appt
                                                 /\ a.status = "CANCELLED"
                                                 /\ a.stamp = req[p].call
                            /\ slotAvail'[loc[p].slot_id]
             IN /\ db' # db => (pc'[p] = "done" /\ result'[p] = "success")
                /\ (pc'[p] = "done" /\ result'[p] = "success") => applied
                /\ (pc'[p] = "done" /\ result'[p] # "success") => db' = db]_vars

\* C10 witness: a cancel call has returned success; its appointment is
\* CANCELLED with the call's timestamp and the slot is AVAILABLE.
CancelAtomicWitness ==
    \E p \in Procs :
        /\ pc[p] = "done" /\ CancelCall(p) /\ result[p] = "success"
        /\ \E a \in appts : a.stamp = req[p].call /\ a.status = "CANCELLED" /\ slotAvail[a.slot]

\* C11 (appointment status is monotone): in every step each appointment row
\* that was committed is still committed, with its slot and patient, a
\* CANCELLED row stays CANCELLED (so CONFIRMED -> CANCELLED is the only change
\* of status and happens at most once per appointment), and every row that
\* becomes committed is CONFIRMED.
StatusMonotone ==
    [][/\ \A a \in appts : \E b \in appts' :
             /\ b.id = a.id /\ b.slot = a.slot /\ b.patient = a.patient
             /\ a.status = "CANCELLED" => b.status = "CANCELLED"
       /\ \A b \in appts' : (\A a \in appts : a.id # b.id) => b.status = "CONFIRMED"
       /\ \A b \in appts' : b.status \in {"CONFIRMED", "CANCELLED"}]_vars

\* C11 witness: a cancel call has run on an appointment that was already
\* CANCELLED and committed; the row is there and is CANCELLED.
StatusMonotoneWitness ==
    /\ lastDone.op = "cancel" /\ lastDone.result = "success" /\ ~lastDone.confirmed
    /\ \E a \in appts : a.slot = lastDone.slot /\ a.status = "CANCELLED" /\ a.stamp > a.id + 1

\* p runs the second of two book calls issued one after the other with the
\* same identity key: no call has run beside it, the call before it was a book
\* with the same key, and that key was new to the storage when the first call
\* looked it up.
SecondOfPair(p) ==
    /\ BookCall(p) /\ Active(p) /\ overlap[p] = {}
    /\ lastDone.op = "book" /\ lastDone.cpf = req[p].cpf /\ lastDone.inserted

\* What the second call of such a pair does, step by step: it changes no
\* patient row, its lookup returns the id of the first call's row, and as it
\* returns there is exactly one patient row with the key, with the first
\* call's profile.
UsesFirstProfile(p) ==
    /\ patients' = patients
    /\ (pc[p] = "patient" /\ pc'[p] # "done")
           => (pc'[p] = "check" /\ loc'[p].patient_id = lastDone.call)
    /\ Returns(p)
           => \E r \in patients' :
                  /\ {x \in patients' : x.cpf = req[p].cpf} = {r}
                  /\ r.profile = lastDone.call

\* C12 as stated (P5, first write wins): two book calls issued one after the
\* other with the same identity key and different profiles give exactly one
\* patient row with the first call's profile; the second call returns the
\* existing id and changes no patient field.
P5_FirstWriteWins ==
    [][\A p \in Procs : (SecondOfPair(p) /\ pc'[p] # pc[p]) => UsesFirstProfile(p)]_vars

\* C12 amended: the same, when the first call of the pair returned success,
\* that is, when it committed the patient row it had inserted.
P5_FirstCommittedWriteWins ==
    [][\A p \in Procs :
          (SecondOfPair(p) /\ lastDone.result = "success" /\ pc'[p] # pc[p])
          => UsesFirstProfile(p)]_vars

\* C12 witness: a book call that ran with no call beside it has returned
\* success with the patient row an earlier call inserted with its own profile.
P5_Witness ==
    \E p \in Procs :
        /\ pc[p] = "done" /\ BookCall(p) /\ overlap[p] = {} /\ result[p] = "success"
        /\ lastDone.call = req[p].call /\ ~lastDone.inserted
        /\ \E r \in patients : \E a \in appts :
               /\ r.cpf = lastDone.cpf /\ r.profile < req[p].call
               /\ a.id = req[p].call /\ a.patient = r.id

\* C13 (invariant I2 under concurrency): in every committed state at most one
\* patient row has a given identity key; a book call that returns success has
\* its appointment on the one committed row with its key (the winner's row or
\* its own), and a call that returns a failure leaves the patients as they were.
I2_OnePatientPerKey ==
    /\ [](\A r, x \in patients : r.cpf = x.cpf => r = x)
    /\ [][\A p \in Procs :
             (BookCall(p) /\ Returns(p))
             => IF result'[p] = "success"
                THEN \E r \in patients' : \E a \in appts' :
                         /\ r.cpf = req[p].cpf
                         /\ a.id = req[p].call /\ a.patient = r.id
                ELSE patients' = patients]_vars

\* C13 witness: two book calls resolved the same new identity key at the same
\* time; one committed its row and the other, with no storage failure
\* injected, returned the error of the unique violation.
I2_Witness ==
    \E p \in Procs :
        /\ pc[p] = "done" /\ BookCall(p) /\ result[p] = "error" /\ overlap[p] # {}
        /\ faults = 0 /\ lastDone.call = req[p].call
        /\ \E r \in patients : r.cpf = lastDone.cpf /\ r.id # req[p].call

\* What a book request must be, in the words of the contract and read in the
\* way that asks least of the program.
\* An identity key of exactly eleven digits: the punctuation '.' and '-' and
\* the blanks are layout; what is left is eleven characters, each one of 0-9.
KeyLayout == SpaceChars \cup {".", "-"}
ElevenDigits(text) ==
    LET key == SelectSeq(text, LAMBDA c : c \notin KeyLayout)
    IN /\ Len(key) = 11
       /\ \A n \in 1..Len(key) : \E d \in 1..10 : key[n] = DigitChars[d]
\* A date of birth that parses: blanks around it apart, three numbers, in the
\* decimal digits of any script, that name a day of the calendar, written
\* day/month/year or year-month-day with a year of four digits.
NamesDay(day, month, year) ==
    /\ IsDecimals(day) /\ IsDecimals(month) /\ IsDecimals(year)
    /\ Len(day) <= 2 /\ Len(month) <= 2 /\ Len(year) = 4
    /\ ToNat(year) >= 1
    /\ ToNat(month) \in 1..12
    /\ ToNat(day) \in 1..DaysIn(ToNat(month), ToNat(year))
DateParses(text) ==
    LET t == StripOf(text, SpaceChars)
        byStroke == Split(t, "/")
        byDash == Split(t, "-")
    IN \/ Len(byStroke) = 3 /\ NamesDay(byStroke[1], byStroke[2], byStroke[3])
       \/ Len(byDash) = 3 /\ NamesDay(byDash[3], byDash[2], byDash[1])
\* A reference that is missing: no doctor or slot number; no clinic text, or
\* one with nothing in it but blanks.
MissingText(text) == \A n \in 1..Len(text) : text[n] \in SpaceChars

\* The malformed requests: the key is not eleven digits, the date of birth
\* does not parse, or a reference is missing.
Malformed ==
    {i \in 1..Len(Requests) :
        LET a == Requests[i] IN
        \/ ~ElevenDigits(a.patient_cpf)
        \/ ~DateParses(a.patient_date_of_birth)
        \/ a.doctor_id = 0 \/ a.slot_id = 0 \/ MissingText(a.clinic_id)}

\* C14 (validation errors mutate nothing): a book request whose identity key
\* is not eleven digits, whose date of birth does not parse, or whose doctor,
\* slot or clinic reference is missing is over in one step with the error
\* result; the step opens no transaction and changes no committed row.
ValidationErrorsMutateNothing ==
    [][\A p \in Procs :
          (~Active(p) /\ calls' # calls)
          => \A i \in Malformed :
                 schedule_appointment(p, i)
                 => /\ pc'[p] = "done" /\ result'[p] = "invalid"
                    /\ db' = db /\ tx' = tx]_vars

\* C15 (no error escapes the engine): every call of create_appointment and
\* cancel_appointment returns a result, never raises, whatever the input and
\* the storage failure; and when the result is a failure the transaction has
\* been rolled back: no write of it is committed and none is left open.
NoErrorEscapes ==
    [][\A p \in Procs :
          Returns(p)
          => /\ result'[p] # "raised"
             /\ result'[p] # "success" => (db' = db /\ tx'[p] = NoTx)]_vars

\* C16 (cancel of an unknown id): when a cancel call looks up an id that no
\* committed appointment has, the call returns NotFound at once and no
\* appointment row (status, cancellation fields) and no slot flag is changed,
\* in the committed tables or in an open transaction.
CancelUnknownReportsNotFound ==
    [][\A p \in Procs :
          (/\ CancelCall(p) /\ pc[p] = "c_lookup" /\ pc'[p] # "c_lookup"
           /\ ApptRows(req[p].appt) = {} /\ faults' = faults)
          => /\ pc'[p] = "done" /\ result'[p] = "notfound"
             /\ db' = db /\ tx' = tx]_vars

\* C16 witness: NotFound was returned while an appointment was CONFIRMED and
\* its slot HELD.
CancelUnknownWitness ==
    /\ lastDone.op = "cancel" /\ lastDone.result = "notfound"
    /\ \E a \in appts : a.status = "CONFIRMED" /\ ~slotAvail[a.slot]
    /\ \E p \in Procs : pc[p] = "done" /\ CancelCall(p) /\ result[p] = "notfound"

\* C17 (getById is a total read): for every id of a committed appointment,
\* CONFIRMED or CANCELLED, get_appointment_by_id returns the appointment's
\* details with its patient and clinic, and for every other id it returns None.
GetByIdTotal ==
    \A id \in 0..MaxCalls, raises \in BOOLEAN :
        LET details == get_appointment_by_id(id, raises) IN
        IF ApptRows(id) = {}
        THEN details = None
        ELSE raises \/
             /\ details.found
             /\ \E a \in ApptRows(id) : /\ details.id = a.id /\ details.status = a.status
                                        /\ details.slot_id = a.slot
                                        /\ details.patient_id = a.patient

\* text occurs in s as a run of consecutive characters.
Contains(s, text) ==
    \E i \in 1..(Len(s) + 1) : i + Len(text) - 1 <= Len(s) /\ SubSeq(s, i, i + Len(text) - 1) = text

\* C18 (search returns only bookable slots): for every search text, every row
\* returned is a slot that is AVAILABLE in the committed state, dated today or
\* later, of a doctor whose specialty contains the text whatever the case; the
\* rows are in ascending order of date, then time; there are at most 20; and no
\* returned slot is referenced by a CONFIRMED appointment.
SearchReturnsBookable ==
    \A text \in SearchTexts, lc_ctype \in Locales, raises \in BOOLEAN :
        LET rows == search_specialty_availability(text, lc_ctype, raises) IN
        /\ \A i \in 1..Len(rows) :
               /\ IsAvailable(rows[i])
               /\ SlotDate(rows[i]) >= Today
               /\ Contains(Lower(Specialty, "UTF-8"), Lower(text, "UTF-8"))
               /\ ConfirmedOn(appts, rows[i]) = {}
        /\ \A i, j \in 1..Len(rows) :
               i < j => \/ SlotDate(rows[i]) < SlotDate(rows[j])
                        \/ /\ SlotDate(rows[i]) = SlotDate(rows[j])
                           /\ SlotTime(rows[i]) <= SlotTime(rows[j])
        /\ Len(rows) <= PageSize

\* Session p's next statement waits for a row another open transaction holds.
Waiting(p) ==
    \/ pc[p] = "p_insert" /\ cpf_insert_waits(p, req[p].cpf)
    \/ pc[p] = "block" /\ SlotLockedByOther(p, req[p].slot)
    \/ pc[p] = "c_update" /\ ApptLockedByOther(p, req[p].appt)
    \/ pc[p] = "c_free" /\ SlotLockedByOther(p, loc[p].slot_id)

\* C19 (no call blocks for ever): under every interleaving every call that has
\* begun returns; and a call that stops while it waits for a row returns a
\* failure with nothing of it committed or left open.
EveryCallReturns ==
    /\ \A p \in Procs : Active(p) ~> ~Active(p)
    /\ [][\A p \in Procs :
             (Waiting(p) /\ Returns(p))
             => (result'[p] # "success" /\ db' = db /\ tx'[p] = NoTx)]_vars

\* C19 witness: a book call waits at its UPDATE of the slot for the row lock
\* of another book call of the same slot, which is about to commit.
EveryCallReturnsWitness ==
    \E p, q \in Procs :
        /\ p # q /\ Waiting(p) /\ pc[p] = "block"
        /\ pc[q] = "commit" /\ req[q].slot = req[p].slot

\* C20 (order of the steps of one book transaction): the patient is resolved
\* before the slot is claimed, the slot is claimed (its flag written HELD by
\* this transaction) before the appointment row is inserted, and the commit
\* comes last: a transaction that holds an inserted appointment row has
\* already written the flag, and one that has written the flag has its patient.
BookStepOrder ==
    \A p \in Procs :
        (BookCall(p) /\ Active(p))
        => /\ tx[p].app # {} => <<req[p].slot, FALSE>> \in tx[p].slot
           /\ tx[p].slot # {} => loc[p].patient_id # 0
           /\ ApptRows(req[p].call) = {}
    /\ \E s \in Slots \ {lastDone.slot} : ~slotAvail[s] /\ ConfirmedOn(appts, s) # {}

\* C22 (release is unconditional and idempotent): the statement that frees the
\* slot runs whatever the slot's flag is and raises no error; as the cancel
\* commits, the flags are those release gives, the slot is AVAILABLE whether it
\* was HELD or already AVAILABLE, and releasing once more changes nothing; a
\* flag goes from HELD to AVAILABLE in no step but the commit of a cancel.
ReleaseIdempotent ==
    [][/\ \A p \in Procs :
             (CancelCall(p) /\ pc[p] = "c_free" /\ pc'[p] # "c_free" /\ faults' = faults)
             => /\ pc'[p] = "c_commit"
                /\ tx'[p].slot = {<<loc[p].slot_id, TRUE>>}
       /\ \A p \in Procs :
             (CancelCall(p) /\ pc[p] = "c_commit" /\ pc'[p] = "done" /\ faults' = faults)
             => /\ result'[p] = "success"
                /\ slotAvail' = release(slotAvail, loc[p].slot_id)
                /\ slotAvail'[loc[p].slot_id]
                /\ release(slotAvail', loc[p].slot_id) = slotAvail'
       /\ \A s \in Slots :
             (~slotAvail[s] /\ slotAvail'[s])
             => \E p \in Procs : CancelCall(p) /\ pc[p] = "c_commit" /\ loc[p].slot_id = s]_vars

\* C22 witness: a cancel has released a slot that an earlier cancel of the
\* same appointment had already released: it returned success and the slot is
\* AVAILABLE, with no CONFIRMED appointment on it.
ReleaseWitness ==
    /\ lastDone.op = "cancel" /\ lastDone.result = "success" /\ ~lastDone.confirmed
    /\ lastDone.slot \in Slots /\ slotAvail[lastDone.slot]
    /\ ConfirmedOn(appts, lastDone.slot) = {}
    /\ \E a \in appts : a.slot = lastDone.slot /\ a.stamp = lastDone.call

\* The category a request must be stored with: its insurance value upper-cased
\* and trimmed when that is one of the two values, the private-pay value when
\* it is any other text, empty, blank or absent.
RECURSIVE ExpectEach(_)
ExpectEach(reqs) ==
    IF reqs = <<>> THEN <<>>
    ELSE LET x == Head(reqs).insurance_type
             t == IF x = Absent THEN <<>> ELSE Strip(Upper(x[1]))
         IN <<IF t \in {PARTICULAR, HEALTH_PLAN} THEN t ELSE PARTICULAR>>
            \o ExpectEach(Tail(reqs))
ExpectedInsurance == ExpectEach(Requests)

\* C23 (insurance category is one of the two enumerated values): for every
\* request that reaches the storage, the category the call carries is the one
\* expected of the request's insurance value; every patient row and every
\* appointment row that a call commits carries that category, which is
\* PARTICULAR or HEALTH_PLAN.
InsuranceEnumerated ==
    [][/\ \A p \in Procs :
             (~Active(p) /\ calls' # calls /\ pc'[p] = "patient")
             => \A i \in 1..Len(Requests) :
                    (/\ Checked[i].valid
                     /\ req'[p].cpf = Checked[i].cpf /\ req'[p].slot = Checked[i].slot_id
                     /\ schedule_appointment(p, i))
                    => req'[p].insurance = ExpectedInsurance[i]
       /\ \A r \in patients' \ patients :
             \E p \in Procs : /\ Returns(p) /\ r.id = req[p].call
                              /\ r.insurance = insurancetype(req[p].insurance)
                              /\ r.insurance \in {"PARTICULAR", "HEALTH_PLAN"}
       /\ \A a \in appts' :
             (\A b \in appts : b.id # a.id)
             => \E p \in Procs : /\ Returns(p) /\ a.id = req[p].call
                                 /\ a.insurance = insurancetype(req[p].insurance)
                                 /\ a.insurance \in {"PARTICULAR", "HEALTH_PLAN"}]_vars

\* C23 witness: a patient created with a health-plan request written in lower
\* case has a second appointment, booked with an unknown insurance value and
\* stored as private-pay.
InsuranceWitness ==
    \E r \in patients : \E a, b \in appts :
        /\ r.insurance = "HEALTH_PLAN"
        /\ a.patient = r.id /\ a.insurance = "HEALTH_PLAN" /\ a.id = r.id
        /\ b.patient = r.id /\ b.insurance = "PARTICULAR" /\ b.id > a.id

\* The digits of a text, in order.
DigitsOf(text) == SelectSeq(text, IsDigitChar)

\* C24 (the accepted identity key is eleven digits): whenever a request passes
\* validate_cpf, the key text schedule_appointment hands to create_appointment
\* is exactly eleven digits and nothing else, so the call carries the key of
\* the request's digits however the request spells it.
AcceptedKeyIsElevenDigits ==
    [][\A p \in Procs :
          (~Active(p) /\ calls' # calls /\ pc'[p] = "patient")
          => \A i \in 1..Len(Requests) :
                 schedule_appointment(p, i)
                 => /\ Len(Checked[i].cpf_text) = CpfLen
                    /\ IsDigits(Checked[i].cpf_text)
                    /\ req'[p].cpf = CpfKey(DigitsOf(Requests[i].patient_cpf))]_vars

\* C25 (two concurrent cancels of one CONFIRMED appointment): when a cancel
\* call returns and a cancel call that ran beside it has already returned
\* success for the same appointment, which was CONFIRMED, then this call does
\* not return success as well and changes nothing: the cancellation timestamp
\* and reason stay those of the first call and the slot is not released again.
ConcurrentCancelOnce ==
    [][\A p, q \in Procs :
          (/\ CancelCall(p) /\ Returns(p) /\ Concurrent(p, q)
           /\ pc[q] = "done" /\ CancelCall(q) /\ result[q] = "success"
           /\ lastDone.call = req[q].call /\ lastDone.confirmed
           /\ \E a \in ApptRows(req[p].appt) : a.stamp = req[q].call)
          => /\ result'[p] # "success"
             /\ appts' = appts
             /\ slotAvail' = slotAvail]_vars

\* C26 (an appointment is consistent with its slot): in every committed state
\* the doctor and the clinic of each appointment are the owning doctor and the
\* owning clinic of the slot it references.
AppointmentMatchesSlot ==
    \A a \in appts : a.doctor = SlotDoctor(a.slot) /\ a.clinic = SlotClinic(a.slot)

\* C27 (a patient row is persisted only with an appointment): in every
\* committed state each patient row is referenced by an appointment; a patient
\* row becomes committed only in the step in which the book call that inserted
\* it commits, together with that call's appointment, which references it, and
\* with the slot written HELD.  The call returns success, or raises when the
\* connection was lost while the server committed.
PatientOnlyWithAppointment ==
    /\ [](\A r \in patients : \E a \in appts : a.patient = r.id)
    /\ [][\A r \in patients' \ patients :
             \E p \in Procs :
                 /\ BookCall(p) /\ pc[p] = "commit" /\ Returns(p)
                 /\ result'[p] \in {"success", "raised"}
                 /\ r.id = req[p].call
                 /\ \E a \in appts' \ appts :
                        a.id = req[p].call /\ a.patient = r.id /\ ~slotAvail'[a.slot]]_vars

\* C27 witness: a book call that had inserted a patient row returned the
\* slot-unavailable error and no row with its key is committed, while the
\* patient of an earlier call, which raised because the connection was lost
\* during its commit, is committed with its appointment.
PatientOnlyWitness ==
    /\ lastDone.op = "book" /\ lastDone.inserted /\ lastDone.result = "unavailable"
    /\ \A r \in patients : r.cpf # lastDone.cpf
    /\ \E p \in Procs, r \in patients :
           /\ result[p] = "raised" /\ pc[p] = "done" /\ r.id = req[p].call
           /\ \E a \in appts : a.patient = r.id /\ a.id = r.id

====
